---------------------------- MODULE Spec2Model ----------------------------
(***************************************************************************)
(* A model of idf-rs (georgik/idf.py-rs): the generator registry and       *)
(* resolver (src/build_systems.rs), the chained-command tokenizer and the  *)
(* command loop (src/main.rs), and the command handlers with the external  *)
(* processes they spawn (src/commands, src/utils.rs).                      *)
(*                                                                         *)
(* Conventions.  Option<T> is a sequence of length 0 (None) or 1 (Some).   *)
(* Result<T> is a record [ok, val]: val is the value when ok and the       *)
(* error message otherwise.  A line of a text file is a sequence of        *)
(* lexical atoms; the character '=' is always an atom of its own and no    *)
(* other atom contains it, so splitting on '=' is splitting on that atom.  *)
(***************************************************************************)
EXTENDS Integers, Sequences, FiniteSets, TLC

VARIABLES
    target_os,  \* the platform the binary was compiled for (cfg!(target_os))
    host,       \* what spawning `<exe> --version` does on this host
    env,        \* names of the variables set in the process environment
    fs,         \* the project's files: the build directory and what is in
                \* it, sdkconfig, and the directories beside the project
    argv,       \* env::args(): the program name followed by the tokens
    pc,         \* where main is
    parsed,     \* what parse_multiple_commands returned
    cli,        \* the Cli in force (global_args, or Cli::parse's)
    cmds,       \* the ParsedCommands to execute
    idx,        \* 1-based index of the command the loop is at
    ops,        \* the rest of the running handler: a stack of steps
    genres,     \* Option<Result<String>>: what get_build_generator returned
    ret,        \* Option<Result<()>>: what the running handler returned
    procs,      \* the spawned child processes that have not exited
    effects,    \* history: spawns, file accesses, reports, in order
    result      \* Option<Result<()>>: what main returned

vars == <<target_os, host, env, fs, argv, pc, parsed, cli, cmds, idx, ops,
          genres, ret, procs, effects, result>>

-----------------------------------------------------------------------------
(* Bounds of the model. *)

\* lines of a CMakeCache.txt the resolver is run on
MaxCacheLines == 2
\* tokens after the program name, for the tokenizer alone
MaxTokArgs == 4
\* tokens after the program name, for whole runs
MaxRunArgs == 3
\* the most trailing arguments of the dispatched command
MaxCmdArgs == 2
\* lines of an sdkconfig file
MaxSdkLines == 2
\* tokens between flash and the next command of a chain
MaxPortArgs == 2
\* runs of the program one after another
MaxInvocations == 3

-----------------------------------------------------------------------------
(* Values. *)

None == <<>>
Some(x) == <<x>>

Ok(v) == [ok |-> TRUE, val |-> v]
Err(msg) == [ok |-> FALSE, val |-> msg]

\* One entry of the history.
Effect(kind, arg, i, n) == [kind |-> kind, arg |-> arg, i |-> i, n |-> n]
\* Command::output() or Command::status() was called on command line cmd
Exec(cmd) == Effect("exec", cmd, 0, 0)
\* the child running command line cmd exited with status st
Exited(cmd, st) == Effect("exit", <<st>> \o cmd, 0, 0)
FileStat(path) == Effect("stat", <<path>>, 0, 0)
\* exists() with what it answered (n = 1: the path exists)
FileStatFound(path, found) ==
    Effect("stat", <<path>>, 0, IF found THEN 1 ELSE 0)
FileRead(path) == Effect("read", <<path>>, 0, 0)

\* One step of a handler: op names the call, cmd the command line it runs,
\* i a loop index, wait whether it is blocked on a child process, pid which.
Op(op, cmd, i) == [op |-> op, cmd |-> cmd, i |-> i, wait |-> FALSE, pid |-> 0]

RECURSIVE Concat(_)
Concat(atoms) ==
    IF atoms = <<>> THEN "" ELSE Head(atoms) \o Concat(Tail(atoms))

-----------------------------------------------------------------------------
(* src/build_systems.rs: the registry. *)

Platforms == {"linux", "freebsd", "windows"}

Generator(command, version, dry_run, verbose_flag, force_progression) ==
    [command |-> command, version |-> version, dry_run |-> dry_run,
     verbose_flag |-> verbose_flag, force_progression |-> force_progression]

\* String's Ord is bytewise; the registry's keys already differ in their
\* first byte ('N' = 78, 'U' = 85).
FirstByte(key) ==
    CASE key = "Ninja" -> 78
      [] key = "Unix Makefiles" -> 85

\* (mutant) the comparison the wrong way round
StrGreater(a, b) == FirstByte(a) > FirstByte(b)

StrLess(a, b) == FirstByte(a) < FirstByte(b)

\* BTreeMap::insert on a map held as the sequence of its entries in
\* iteration order (ascending keys): an equal key is replaced in place.
RECURSIVE BTreeInsert(_, _, _)
BTreeInsert(map, key, value) ==
    IF map = <<>> THEN <<[key |-> key, value |-> value]>>
    ELSE IF Head(map).key = key
         THEN <<[key |-> key, value |-> value]>> \o Tail(map)
    ELSE IF StrLess(key, Head(map).key)
         THEN <<[key |-> key, value |-> value]>> \o map
    ELSE <<Head(map)>> \o BTreeInsert(Tail(map), key, value)

MakeCmd(os) == IF os = "freebsd" THEN "gmake" ELSE "make"

\* The inserts get_generators makes on platform os, in program order.
GeneratorInserts(os) ==
    <<[key |-> "Ninja",
       value |-> Generator(<<"ninja">>, <<"ninja", "--version">>,
                           <<"ninja", "-n">>, "-v", TRUE)]>>
    \o (IF os # "windows"
        THEN <<[key |-> "Unix Makefiles",
                value |-> Generator(<<MakeCmd(os), "-j", "cpu_count+2">>,
                                    <<MakeCmd(os), "--version">>,
                                    <<MakeCmd(os), "-n">>, "VERBOSE=1", FALSE)]>>
        ELSE <<>>)

RECURSIVE InsertAll(_, _)
InsertAll(map, inserts) ==
    IF inserts = <<>> THEN map
    ELSE InsertAll(BTreeInsert(map, Head(inserts).key, Head(inserts).value),
                   Tail(inserts))

\* get_generators(): the map in iteration order.
GetGenerators(os) == InsertAll(<<>>, GeneratorInserts(os))

Keys(map) == [i \in 1..Len(map) |-> map[i].key]

-----------------------------------------------------------------------------
(* src/build_systems.rs: probing. *)

Executables == {"ninja", "make", "gmake"}
\* what Command::output() yields for a probe: the child could not be
\* spawned, or it ran and exited with status zero or non-zero
Outcomes == {"spawn_error", "exit_zero", "exit_nonzero"}

\* (mutant) a child that cannot be spawned counts as available
ExecutableExistsErrTrue(args, outcome) ==
    IF args = <<>> THEN FALSE
    ELSE outcome \in {"exit_zero", "spawn_error"}

\* (mutant) a tool counts as available the first time it is probed only
ExecutableExistsFirstOnly(args, outcome) ==
    /\ args # <<>>
    /\ outcome = "exit_zero"
    /\ Cardinality({i \in 1..Len(effects) :
            effects[i].kind = "exec" /\ effects[i].arg = args}) <= 1

\* executable_exists(args), given what cmd.output() yields.
ExecutableExists(args, outcome) ==
    IF args = <<>> THEN FALSE
    ELSE CASE outcome = "exit_zero" -> TRUE
           [] outcome = "exit_nonzero" -> FALSE
           [] outcome = "spawn_error" -> FALSE

NoGeneratorFound ==
    "To use idf-rs, either the 'ninja' or 'make' build tool must be available in the PATH"

-----------------------------------------------------------------------------
(* src/build_systems.rs: the marker file. *)

CacheKey == "CMAKE_GENERATOR:INTERNAL"

\* line.starts_with("CMAKE_GENERATOR:INTERNAL=")
StartsWithKey(line) ==
    Len(line) >= 2 /\ line[1] = CacheKey /\ line[2] = "="

\* line.split('='): the segments between the '=' atoms, in order.
RECURSIVE SplitEq(_, _)
SplitEq(line, cur) ==
    IF line = <<>> THEN <<cur>>
    ELSE IF Head(line) = "=" THEN <<cur>> \o SplitEq(Tail(line), <<>>)
    ELSE SplitEq(Tail(line), Append(cur, Head(line)))

\* iterator.nth(n), n counted from 0
Nth(s, n) == IF n + 1 <= Len(s) THEN Some(s[n + 1]) ELSE None

\* The for loop of get_generator_from_cache over content.lines().
RECURSIVE ScanCacheLines(_)
ScanCacheLines(lines) ==
    IF lines = <<>> THEN None
    ELSE IF StartsWithKey(Head(lines)) /\ Nth(SplitEq(Head(lines), <<>>), 1) # None
         THEN Some(Concat(Nth(SplitEq(Head(lines), <<>>), 1)[1]))
    ELSE ScanCacheLines(Tail(lines))

\* get_generator_from_cache(build_dir) on the files f.
GetGeneratorFromCache(f) ==
    IF ~f.cache.exists THEN None
    ELSE IF f.cache.readable THEN ScanCacheLines(f.cache.lines)
    ELSE None

\* The file accesses get_generator_from_cache makes.
CacheAccesses(f) ==
    <<FileStat("CMakeCache.txt")>>
    \o (IF f.cache.exists THEN <<FileRead("CMakeCache.txt")>> ELSE <<>>)

NoCache == [exists |-> FALSE, readable |-> FALSE, lines |-> <<>>]
CacheFile(lines) == [exists |-> TRUE, readable |-> TRUE, lines |-> lines]
UnreadableCache == [exists |-> TRUE, readable |-> FALSE, lines |-> <<>>]

\* The line cmake writes for generator g.
GeneratorLine(g) == <<CacheKey, "=", g>>

\* What a path of the directory of idf.py can hold: nothing, the script
\* ESP-IDF installed, or a symbolic link to idf-rs.
Absent == "absent"
Original == "original"
LinkToIdfRs == "link to idf-rs"

\* idf_py is <dir>/idf.py and idf_old_py is <dir>/idf-old.py, <dir> being
\* the directory of PATH that `which idf.py` names.
\* A project directory with no build directory, no sdkconfig and nothing
\* beside it: build_dir, app_bin (<build>/<project>.bin), bootloader_bin
\* (<build>/bootloader/bootloader.bin) and elf (some <build>/*.elf) say
\* whether the path exists, cache is <build>/CMakeCache.txt, sdkconfig is
\* the lines of <project>/sdkconfig, dirs the paths create-project can name.
NoFiles ==
    [build_dir |-> FALSE, cache |-> NoCache, app_bin |-> FALSE,
     bootloader_bin |-> FALSE, elf |-> FALSE, sdkconfig |-> None,
     dirs |-> {}, idf_py |-> "original", idf_old_py |-> "absent"]

\* A build directory holding only the marker file c.
BuildDirWith(c) == [NoFiles EXCEPT !.build_dir = TRUE, !.cache = c]

-----------------------------------------------------------------------------
(* src/main.rs: the Cli struct. *)

\* The Cli that parse_multiple_commands starts from: every field at its
\* default.
DefaultCli ==
    [idf_version |-> FALSE, list_targets |-> FALSE,
     project_dir |-> None, build_dir |-> None,
     verbose |-> FALSE, preview |-> FALSE, ccache |-> FALSE,
     no_ccache |-> FALSE, generator |-> None, no_hints |-> FALSE,
     define_cache_entry |-> None, port |-> None, baud |-> None,
     command |-> None]

\* parse_multiple_commands has not run
NoParse ==
    [ok |-> FALSE, val |-> "", global_args |-> DefaultCli, commands |-> <<>>,
     locals |-> [commands |-> <<>>, global_args |-> <<>>,
                 current_command |-> None, current_args |-> <<>>,
                 found_multiple_commands |-> FALSE]]

-----------------------------------------------------------------------------
(* src/main.rs: parse_multiple_commands. *)

\* (mutant) monitor is not a name the tokenizer knows
KnownCommandsWithoutMonitor ==
    {"build", "all", "app", "bootloader", "clean", "fullclean", "flash",
     "app-flash", "bootloader-flash", "menuconfig", "set-target",
     "erase-flash", "size", "size-components", "size-files", "reconfigure",
     "create-project", "build-system-targets", "install-alias",
     "uninstall-alias"}

KnownCommands ==
    {"build", "all", "app", "bootloader", "clean", "fullclean", "flash",
     "app-flash", "bootloader-flash", "monitor", "menuconfig", "set-target",
     "erase-flash", "size", "size-components", "size-files", "reconfigure",
     "create-project", "build-system-targets", "install-alias",
     "uninstall-alias"}

ParsedCommand(name, args) == [name |-> name, args |-> args]

\* The locals of parse_multiple_commands before its loop.
ScanStart ==
    [commands |-> <<>>, global_args |-> <<>>, current_command |-> None,
     current_args |-> <<>>, found_multiple_commands |-> FALSE]

\* (mutant) current_args is not cleared when a command is saved
ScanTokenKeepArgs(st, arg) ==
    IF arg \in KnownCommands
    THEN IF st.current_command # None
         THEN [st EXCEPT !.commands =
                            Append(@, ParsedCommand(st.current_command[1],
                                                    st.current_args)),
                         !.found_multiple_commands = TRUE,
                         !.current_command = Some(arg)]
         ELSE IF st.commands # <<>>
         THEN [st EXCEPT !.found_multiple_commands = TRUE,
                         !.current_command = Some(arg)]
         ELSE [st EXCEPT !.current_command = Some(arg)]
    ELSE IF st.current_command # None
    THEN [st EXCEPT !.current_args = Append(@, arg)]
    ELSE [st EXCEPT !.global_args = Append(@, arg)]

\* (mutant) the first command name already counts as a boundary
ScanTokenFlagsFirst(st, arg) ==
    IF arg \in KnownCommands
    THEN IF st.current_command # None
         THEN [st EXCEPT !.commands =
                            Append(@, ParsedCommand(st.current_command[1],
                                                    st.current_args)),
                         !.current_args = <<>>,
                         !.found_multiple_commands = TRUE,
                         !.current_command = Some(arg)]
         ELSE [st EXCEPT !.found_multiple_commands = TRUE,
                         !.current_command = Some(arg)]
    ELSE IF st.current_command # None
    THEN [st EXCEPT !.current_args = Append(@, arg)]
    ELSE [st EXCEPT !.global_args = Append(@, arg)]

\* One turn of the while loop, on token arg.
ScanToken(st, arg) ==
    IF arg \in KnownCommands
    THEN IF st.current_command # None
         THEN [st EXCEPT !.commands =
                            Append(@, ParsedCommand(st.current_command[1],
                                                    st.current_args)),
                         !.current_args = <<>>,
                         !.found_multiple_commands = TRUE,
                         !.current_command = Some(arg)]
         ELSE IF st.commands # <<>>
         THEN [st EXCEPT !.found_multiple_commands = TRUE,
                         !.current_command = Some(arg)]
         ELSE [st EXCEPT !.current_command = Some(arg)]
    ELSE IF st.current_command # None
    THEN [st EXCEPT !.current_args = Append(@, arg)]
    ELSE [st EXCEPT !.global_args = Append(@, arg)]

\* while i < args.len(), i counted from 0 and starting at 1
RECURSIVE Scan(_, _, _)
Scan(st, args, i) ==
    IF i < Len(args) THEN Scan(ScanToken(st, args[i + 1]), args, i + 1)
    ELSE st

\* (mutant) the command still open when the loop ends is dropped
SaveLastDropped(st) == st.commands

\* (mutant) the last command is saved without its arguments
SaveLastNoArgs(st) ==
    IF st.current_command # None
    THEN Append(st.commands, ParsedCommand(st.current_command[1], <<>>))
    ELSE st.commands

\* "Save the last command"
SaveLast(st) ==
    IF st.current_command # None
    THEN Append(st.commands,
                ParsedCommand(st.current_command[1], st.current_args))
    ELSE st.commands

\* (mutant) one command is enough for the chained path
ChainedAnyCommand(commands, found_multiple_commands) ==
    Len(commands) >= 1

\* The condition under which parse_multiple_commands returns Ok.
Chained(commands, found_multiple_commands) ==
    Len(commands) > 1 \/ (Len(commands) = 1 /\ found_multiple_commands)

\* (mutant) only the short spelling of verbose is recognised
GlobalCliShortOnly(global_args) ==
    LET Contains(t) == \E k \in 1..Len(global_args) : global_args[k] = t IN
    [DefaultCli EXCEPT
        !.verbose = Contains("-v"),
        !.preview = Contains("--preview"),
        !.ccache = Contains("--ccache"),
        !.no_ccache = Contains("--no-ccache"),
        !.no_hints = Contains("--no-hints")]

\* (mutant) the value after a global -p is taken as the port
GlobalCliWithPort(global_args) ==
    LET Contains(t) == \E k \in 1..Len(global_args) : global_args[k] = t
        At == {k \in 1..(Len(global_args) - 1) : global_args[k] = "-p"}
    IN
    [DefaultCli EXCEPT
        !.verbose = Contains("-v") \/ Contains("--verbose"),
        !.preview = Contains("--preview"),
        !.ccache = Contains("--ccache"),
        !.no_ccache = Contains("--no-ccache"),
        !.no_hints = Contains("--no-hints"),
        !.port = IF At = {} THEN None
                 ELSE Some(global_args[(CHOOSE k \in At : \A m \in At : k <= m) + 1])]

\* The Cli built from the global tokens.
GlobalCli(global_args) ==
    LET Contains(t) == \E k \in 1..Len(global_args) : global_args[k] = t IN
    [DefaultCli EXCEPT
        !.verbose = Contains("-v") \/ Contains("--verbose"),
        !.preview = Contains("--preview"),
        !.ccache = Contains("--ccache"),
        !.no_ccache = Contains("--no-ccache"),
        !.no_hints = Contains("--no-hints")]

NoCommands == "No commands provided"
SingleCommand == "Single command detected, use normal parsing"

\* parse_multiple_commands(args): Result<MultipleCommands>, with the final
\* value of its locals beside it.
ParseMultipleCommands(args) ==
    IF Len(args) < 2
    THEN [ok |-> FALSE, val |-> NoCommands, global_args |-> DefaultCli,
          commands |-> <<>>, locals |-> ScanStart]
    ELSE LET st == Scan(ScanStart, args, 1)
             commands == SaveLast(st)
         IN IF Chained(commands, st.found_multiple_commands)
            THEN [ok |-> TRUE, val |-> "",
                  global_args |-> GlobalCli(st.global_args),
                  commands |-> commands, locals |-> st]
            ELSE [ok |-> FALSE, val |-> SingleCommand,
                  global_args |-> DefaultCli, commands |-> <<>>,
                  locals |-> st]

\* A report execute_multiple_commands prints: what, for command i of n.
Report(what, name, i, n) == Effect("print", <<what, name>>, i, n)

\* main up to its choice of path: a chained invocation enters
\* execute_multiple_commands (which prints its header), anything else goes
\* on to Cli::parse.
MainStart ==
    /\ pc = "start"
    /\ parsed' = ParseMultipleCommands(argv)
    /\ IF parsed'.ok
       THEN /\ pc' = "loop"
            /\ cli' = parsed'.global_args
            /\ cmds' = parsed'.commands
            /\ idx' = 1
            /\ effects' = Append(effects,
                    Report("Executing commands in sequence", "", 0,
                           Len(parsed'.commands)))
       ELSE /\ pc' = "cli_parse"
            /\ UNCHANGED <<cli, cmds, idx, effects>>
    /\ UNCHANGED <<target_os, host, env, fs, argv, ops, genres, ret, procs,
                   result>>

-----------------------------------------------------------------------------
(* The running handler: a stack of steps, and the `?` operator. *)

Running == pc = "cmd" /\ ops # <<>>
Top == Head(ops)

\* The step returned normally: go on with the rest of the handler.
Proceed(stack) == Tail(stack)

\* `?` on an Err: every caller on the stack propagates it.
Propagate(stack) == <<>>

-----------------------------------------------------------------------------
(* src/build_systems.rs: get_build_generator and detect_cmake_generator. *)

\* (mutant) the marker file consulted before the explicit choice
ResolveCacheFirst(explicit, f) ==
    IF GetGeneratorFromCache(f) # None
    THEN [res |-> Some(Ok(GetGeneratorFromCache(f)[1])), detect |-> FALSE,
          accesses |-> CacheAccesses(f)]
    ELSE IF explicit # None
    THEN [res |-> Some(Ok(explicit[1])), detect |-> FALSE,
          accesses |-> CacheAccesses(f)]
    ELSE [res |-> None, detect |-> TRUE, accesses |-> CacheAccesses(f)]

\* get_build_generator up to the call of detect_cmake_generator: the value
\* it returns without detection (res), whether it goes on to detection,
\* and the file accesses it made.
ResolveWithoutProbing(explicit, f) ==
    IF explicit # None
    THEN [res |-> Some(Ok(explicit[1])), detect |-> FALSE, accesses |-> <<>>]
    ELSE IF GetGeneratorFromCache(f) # None
    THEN [res |-> Some(Ok(GetGeneratorFromCache(f)[1])), detect |-> FALSE,
          accesses |-> CacheAccesses(f)]
    ELSE [res |-> None, detect |-> TRUE, accesses |-> CacheAccesses(f)]

GetBuildGenerator ==
    /\ Running /\ Top.op = "get_build_generator"
    /\ LET r == ResolveWithoutProbing(cli.generator, fs) IN
        /\ effects' = effects \o r.accesses
        /\ IF r.detect
           THEN /\ ops' = <<Op("detect_cmake_generator", <<>>, 1)>> \o Tail(ops)
                /\ genres' = None
           ELSE /\ ops' = Proceed(ops)
                /\ genres' = r.res
    /\ UNCHANGED <<target_os, host, env, fs, argv, pc, parsed, cli, cmds, idx,
                   ret, procs, result>>

\* A child process: the command line it runs, and the length of the
\* history when it was spawned (which tells two runs of one command apart).
Proc(cmd) == [cmd |-> cmd, at |-> Len(effects) + 1]

\* (mutant) run_command spawns its child and does not wait for it
SpawnOnly(stack, p) ==
    IF Head(stack).op = "run_command" THEN Proceed(stack)
    ELSE <<[Head(stack) EXCEPT !.wait = TRUE, !.pid = p.at]>> \o Tail(stack)

\* Command::output() and Command::status() block until the child exits:
\* the step on top of the stack waits for it.
BlockOn(stack, p) ==
    <<[Head(stack) EXCEPT !.wait = TRUE, !.pid = p.at]>> \o Tail(stack)

\* (mutant) the loop goes on to the next entry after a successful probe
AfterProbeNoReturn(stack, verdict) ==
    <<[Head(stack) EXCEPT !.i = @ + 1, !.wait = FALSE]>> \o Tail(stack)

\* The body of the for loop of detect_cmake_generator once
\* executable_exists has returned verdict for entry i.
AfterProbe(stack, verdict) ==
    IF verdict THEN Proceed(stack)
    ELSE <<[Head(stack) EXCEPT !.i = @ + 1, !.wait = FALSE]>> \o Tail(stack)

\* The registry entry the loop of detect_cmake_generator is at.
ProbedEntry == GetGenerators(target_os)[Top.i]

\* detect_cmake_generator calls executable_exists on the next entry.
DetectProbe ==
    /\ Running /\ Top.op = "detect_cmake_generator" /\ ~Top.wait
    /\ Top.i <= Len(GetGenerators(target_os))
    /\ LET args == ProbedEntry.value.version IN
        IF args = <<>>
        THEN /\ ops' = AfterProbe(ops, ExecutableExists(args, "spawn_error"))
             /\ genres' = IF ExecutableExists(args, "spawn_error")
                          THEN Some(Ok(ProbedEntry.key)) ELSE genres
             /\ UNCHANGED <<procs, effects>>
        ELSE IF host[args[1]] = "spawn_error"
        THEN /\ ops' = AfterProbe(ops, ExecutableExists(args, "spawn_error"))
             /\ genres' = IF ExecutableExists(args, "spawn_error")
                          THEN Some(Ok(ProbedEntry.key)) ELSE genres
             /\ effects' = Append(effects, Exec(args))
             /\ procs' = procs
        ELSE /\ ops' = BlockOn(ops, Proc(args))
             /\ procs' = procs \cup {Proc(args)}
             /\ effects' = Append(effects, Exec(args))
             /\ genres' = genres
    /\ UNCHANGED <<target_os, host, env, fs, argv, pc, parsed, cli, cmds, idx,
                   ret, result>>

\* detect_cmake_generator ran out of entries: anyhow::bail!, and the `?` of
\* its callers.
DetectBail ==
    /\ Running /\ Top.op = "detect_cmake_generator" /\ ~Top.wait
    /\ Top.i > Len(GetGenerators(target_os))
    /\ genres' = Some(Err(NoGeneratorFound))
    /\ ret' = Some(Err(NoGeneratorFound))
    /\ ops' = Propagate(ops)
    /\ UNCHANGED <<target_os, host, env, fs, argv, pc, parsed, cli, cmds, idx,
                   procs, effects, result>>

-----------------------------------------------------------------------------
(* src/utils.rs: run_command, and the exit of a child process. *)

IsConfigure(cmd) == Len(cmd) >= 7 /\ cmd[1] = "cmake" /\ cmd[2] = "-B"

\* What a tool that exited with status zero has done to the files: cmake's
\* configure step creates the build directory and records the generator.
ToolEffect(cmd, f) ==
    IF IsConfigure(cmd)
    THEN [f EXCEPT !.build_dir = TRUE,
                   !.cache = CacheFile(<<GeneratorLine(cmd[7])>>)]
    ELSE f

CommandFailed == "Command failed with exit code"
CommandFailedOutput == "Command failed"
SpawnFailed == "No such file or directory (os error 2)"

\* The command line of the step on top of the stack: &generator is the
\* value get_build_generator returned.
CommandLine ==
    [k \in 1..Len(Top.cmd) |->
        IF Top.cmd[k] = "$generator" THEN genres[1].val ELSE Top.cmd[k]]

\* run_command and run_command_with_output: Command::status() or
\* Command::output() spawns the child, or fails to.
RunCommand ==
    /\ Running /\ Top.op \in {"run_command", "run_command_with_output"}
    /\ ~Top.wait
    /\ effects' = Append(effects, Exec(CommandLine))
    /\ \E spawnable \in BOOLEAN :
        IF spawnable
        THEN /\ procs' = procs \cup {Proc(CommandLine)}
             /\ ops' = BlockOn(ops, Proc(CommandLine))
             /\ ret' = ret
        ELSE /\ procs' = procs
             /\ ops' = Propagate(ops)
             /\ ret' = Some(Err(SpawnFailed))
    /\ UNCHANGED <<target_os, host, env, fs, argv, pc, parsed, cli, cmds, idx,
                   genres, result>>

\* The statuses child p can exit with: a probe's is the host's, a tool's
\* is not known beforehand.
ExitStatuses(p) ==
    IF p.cmd[1] \in Executables THEN {host[p.cmd[1]]}
    ELSE {"exit_zero", "exit_nonzero"}

\* Child p exits with status st; the step blocked on it, if any, resumes.
ProcExit ==
    \E p \in procs : \E st \in ExitStatuses(p) :
        /\ procs' = procs \ {p}
        /\ IF Running /\ Top.wait /\ Top.pid = p.at
           THEN IF Top.op = "detect_cmake_generator"
                THEN /\ ops' = AfterProbe(ops, ExecutableExists(p.cmd, st))
                     /\ genres' = IF ExecutableExists(p.cmd, st)
                                  THEN Some(Ok(ProbedEntry.key)) ELSE genres
                     /\ UNCHANGED <<fs, ret>>
                ELSE IF st = "exit_zero"
                THEN /\ ops' = Proceed(ops)
                     /\ fs' = ToolEffect(p.cmd, fs)
                     /\ UNCHANGED <<genres, ret>>
                ELSE /\ ops' = Propagate(ops)
                     /\ ret' = Some(Err(IF Top.op = "run_command_with_output"
                                        THEN CommandFailedOutput
                                        ELSE CommandFailed))
                     /\ UNCHANGED <<genres, fs>>
           ELSE UNCHANGED <<ops, genres, fs, ret>>
        /\ effects' = Append(effects, Exited(p.cmd, st))
        /\ UNCHANGED <<target_os, host, env, argv, pc, parsed, cli, cmds, idx,
                       result>>

-----------------------------------------------------------------------------
(* src/main.rs: Cli::parse, the parser clap derives from Cli and Commands. *)
(* Global options come before the subcommand; what follows the subcommand  *)
(* belongs to it.  A usage error ends the process.                         *)

Flags ==
    {"--idf-version", "--list-targets", "-v", "--verbose", "--preview",
     "--ccache", "--no-ccache", "--no-hints"}
ValueOptions ==
    {"-C", "--project-dir", "-B", "--build-dir", "-G", "--generator",
     "-D", "--define-cache-entry", "-p", "--port", "-b", "--baud"}
FlashFlags == {"--extra-args", "--force", "--trace"}
LooksLikeOption(t) == t \in Flags \cup ValueOptions \cup FlashFlags
\* the tokens that parse as a u32
U32Tokens == {"115200", "460800"}

SetFlag(c, t) ==
    CASE t = "--idf-version" -> [c EXCEPT !.idf_version = TRUE]
      [] t = "--list-targets" -> [c EXCEPT !.list_targets = TRUE]
      [] t \in {"-v", "--verbose"} -> [c EXCEPT !.verbose = TRUE]
      [] t = "--preview" -> [c EXCEPT !.preview = TRUE]
      [] t = "--ccache" -> [c EXCEPT !.ccache = TRUE]
      [] t = "--no-ccache" -> [c EXCEPT !.no_ccache = TRUE]
      [] t = "--no-hints" -> [c EXCEPT !.no_hints = TRUE]

SetValue(c, t, v) ==
    CASE t \in {"-C", "--project-dir"} -> [c EXCEPT !.project_dir = Some(v)]
      [] t \in {"-B", "--build-dir"} -> [c EXCEPT !.build_dir = Some(v)]
      [] t \in {"-G", "--generator"} -> [c EXCEPT !.generator = Some(v)]
      [] t \in {"-D", "--define-cache-entry"} ->
            [c EXCEPT !.define_cache_entry = Some(v)]
      [] t \in {"-p", "--port"} -> [c EXCEPT !.port = Some(v)]
      [] t \in {"-b", "--baud"} -> [c EXCEPT !.baud = Some(v)]

\* A variant of Commands: its name and fields.
Subcommand(name, args, extra_args, force, trace) ==
    [name |-> name, args |-> args, extra_args |-> extra_args,
     force |-> force, trace |-> trace]

UsageError == "error: unexpected argument"

\* The subcommands with a trailing_var_arg field, or with no field at all;
\* those with other fields are not parsed by this model.
RECURSIVE ParseFlash(_, _)
ParseFlash(sub, toks) ==
    IF toks = <<>> THEN Ok(sub)
    ELSE IF Head(toks) = "--force"
    THEN ParseFlash([sub EXCEPT !.force = TRUE], Tail(toks))
    ELSE IF Head(toks) = "--trace"
    THEN ParseFlash([sub EXCEPT !.trace = TRUE], Tail(toks))
    ELSE IF Head(toks) = "--extra-args"
    THEN IF Len(toks) < 2 THEN Err(UsageError)
         ELSE ParseFlash([sub EXCEPT !.extra_args = Some(toks[2])],
                         Tail(Tail(toks)))
    ELSE Ok([sub EXCEPT !.args = toks])

ParseSubcommand(name, toks) ==
    CASE name \in {"build", "all"} ->
            Ok(Subcommand("build", toks, None, FALSE, FALSE))
      [] name = "monitor" ->
            Ok(Subcommand("monitor", toks, None, FALSE, FALSE))
      [] name = "flash" ->
            ParseFlash(Subcommand("flash", <<>>, None, FALSE, FALSE), toks)
      [] name = "install-alias" ->
            IF toks = <<>>
            THEN Ok(Subcommand(name, <<>>, None, FALSE, FALSE))
            ELSE IF toks = <<"--force">>
            THEN Ok(Subcommand(name, <<>>, None, TRUE, FALSE))
            ELSE Err(UsageError)
      [] OTHER ->
            IF toks = <<>> THEN Ok(Subcommand(name, <<>>, None, FALSE, FALSE))
            ELSE Err(UsageError)

RECURSIVE ParseGlobals(_, _)
ParseGlobals(c, toks) ==
    IF toks = <<>> THEN Ok(c)
    ELSE IF Head(toks) \in Flags
    THEN ParseGlobals(SetFlag(c, Head(toks)), Tail(toks))
    ELSE IF Head(toks) \in ValueOptions
    THEN IF \/ Len(toks) < 2
            \/ LooksLikeOption(toks[2])
            \/ (Head(toks) \in {"-b", "--baud"} /\ toks[2] \notin U32Tokens)
         THEN Err(UsageError)
         ELSE ParseGlobals(SetValue(c, Head(toks), toks[2]), Tail(Tail(toks)))
    ELSE IF Head(toks) \in KnownCommands
    THEN IF ParseSubcommand(Head(toks), Tail(toks)).ok
         THEN Ok([c EXCEPT !.command =
                    Some(ParseSubcommand(Head(toks), Tail(toks)).val)])
         ELSE Err(UsageError)
    ELSE Err(UsageError)

\* Cli::parse() on env::args()
CliParse(args) == ParseGlobals(DefaultCli, Tail(args))

-----------------------------------------------------------------------------
(* src/commands: the handlers, as the steps they take in program order. *)

\* utils::get_build_dir, as the command lines name it
BuildDirPath(c) == IF c.build_dir # None THEN c.build_dir[1] ELSE "build"
ProjectDirPath(c) == IF c.project_dir # None THEN c.project_dir[1] ELSE "."

\* (mutant) the build invocation comes before the configure invocation
BuildExecuteBuildFirst(c, args) ==
    <<Op("setup_idf_environment", <<>>, 0),
      Op("get_build_generator", <<>>, 0),
      Op("run_command",
         <<"cmake", "--build", BuildDirPath(c)>>
         \o (IF c.verbose THEN <<"--verbose">> ELSE <<>>)
         \o (IF args # <<>> THEN <<"--">> \o args ELSE <<>>), 0),
      Op("run_command",
         <<"cmake", "-B", BuildDirPath(c), "-S", ProjectDirPath(c),
           "-G", "$generator">>
         \o (IF c.define_cache_entry # None
             THEN <<"-D", c.define_cache_entry[1]>> ELSE <<>>), 0)>>

\* commands::build::execute(cli, args)
BuildExecute(c, args) ==
    <<Op("setup_idf_environment", <<>>, 0),
      Op("get_build_generator", <<>>, 0),
      Op("run_command",
         <<"cmake", "-B", BuildDirPath(c), "-S", ProjectDirPath(c),
           "-G", "$generator">>
         \o (IF c.define_cache_entry # None
             THEN <<"-D", c.define_cache_entry[1]>> ELSE <<>>), 0),
      Op("run_command",
         <<"cmake", "--build", BuildDirPath(c)>>
         \o (IF c.verbose THEN <<"--verbose">> ELSE <<>>)
         \o (IF args # <<>> THEN <<"--">> \o args ELSE <<>>), 0)>>

\* (mutant) the flashing tool runs before the build directory is looked at
FlashExecuteFlashFirst(c, args, extra_args, force, trace) ==
    <<Op("setup_idf_environment", <<>>, 0),
      Op("set_env_vars", <<>>, 0),
      Op("run_command",
         <<"cmake", "--build", BuildDirPath(c), "--target", "flash">>, 0),
      Op("build_if_no_build_dir", <<>>, 0),
      Op("remove_env_vars", <<>>, 0)>>

\* (mutant) the trailing arguments of flash reach the flashing tool
FlashExecuteUsesArgs(c, args, extra_args, force, trace) ==
    <<Op("setup_idf_environment", <<>>, 0),
      Op("build_if_no_build_dir", <<>>, 0),
      Op("set_env_vars", <<>>, 0),
      Op("run_command",
         <<"cmake", "--build", BuildDirPath(c), "--target", "flash">>
         \o args, 0),
      Op("remove_env_vars", <<>>, 0)>>

\* commands::flash::execute(cli, args, extra_args, force, trace)
FlashExecute(c, args, extra_args, force, trace) ==
    <<Op("setup_idf_environment", <<>>, 0),
      Op("build_if_no_build_dir", <<>>, 0),
      Op("set_env_vars", <<>>, 0),
      Op("run_command",
         <<"cmake", "--build", BuildDirPath(c), "--target", "flash">>, 0),
      Op("remove_env_vars", <<>>, 0)>>

\* commands::monitor::execute(cli, args); the project.elf argument, which
\* depends on a file no other step reads, is left out of the command line
MonitorExecute(c, args) ==
    <<Op("setup_idf_environment", <<>>, 0),
      Op("get_idf_path", <<>>, 0),
      Op("run_command",
         <<"python3", "tools/idf_monitor.py">>
         \o (IF c.port # None THEN <<"--port", c.port[1]>> ELSE <<>>)
         \o <<"--baud", IF c.baud # None THEN c.baud[1] ELSE "115200">>
         \o args, 0)>>

\* The variables flash::execute sets for the flashing tool.
EnvVars(c) ==
    (IF c.port # None THEN {"ESPPORT"} ELSE {})
    \cup (IF c.baud # None THEN {"ESPBAUD"} ELSE {})

IdfPathNotSet ==
    "IDF_PATH environment variable is not set. Please set up ESP-IDF environment first."
IdfPathNotSetVar == "IDF_PATH environment variable not set"

\* utils::setup_idf_environment()? and utils::get_idf_path()?
CheckIdfPath ==
    /\ Running /\ Top.op \in {"setup_idf_environment", "get_idf_path"}
    /\ IF "IDF_PATH" \in env
       THEN /\ ops' = Proceed(ops)
            /\ ret' = ret
       ELSE /\ ops' = Propagate(ops)
            /\ ret' = Some(Err(IF Top.op = "get_idf_path"
                               THEN IdfPathNotSetVar ELSE IdfPathNotSet))
    /\ UNCHANGED <<target_os, host, env, fs, argv, pc, parsed, cli, cmds, idx,
                   genres, procs, effects, result>>

\* flash::execute: "First, ensure the project is built"
BuildIfNoBuildDir ==
    /\ Running /\ Top.op = "build_if_no_build_dir"
    /\ effects' = Append(effects,
                         FileStatFound(BuildDirPath(cli), fs.build_dir))
    /\ ops' = IF ~fs.build_dir
              THEN BuildExecute(cli, <<>>) \o Proceed(ops)
              ELSE Proceed(ops)
    /\ UNCHANGED <<target_os, host, env, fs, argv, pc, parsed, cli, cmds, idx,
                   genres, ret, procs, result>>

\* flash::execute: std::env::set_var for each of env_vars
SetEnvVars ==
    /\ Running /\ Top.op = "set_env_vars"
    /\ env' = env \cup EnvVars(cli)
    /\ ops' = Proceed(ops)
    /\ UNCHANGED <<target_os, host, fs, argv, pc, parsed, cli, cmds, idx,
                   genres, ret, procs, effects, result>>

\* flash::execute: std::env::remove_var for each of env_vars
RemoveEnvVars ==
    /\ Running /\ Top.op = "remove_env_vars"
    /\ env' = env \ EnvVars(cli)
    /\ ops' = Proceed(ops)
    /\ UNCHANGED <<target_os, host, fs, argv, pc, parsed, cli, cmds, idx,
                   genres, ret, procs, effects, result>>

-----------------------------------------------------------------------------
(* src/commands/build.rs: the other handlers of the build group. *)

\* commands::build::execute_app(cli)
BuildExecuteApp(c) ==
    <<Op("setup_idf_environment", <<>>, 0),
      Op("run_command",
         <<"cmake", "--build", BuildDirPath(c), "--target", "app">>, 0)>>

\* commands::build::execute_bootloader(cli)
BuildExecuteBootloader(c) ==
    <<Op("setup_idf_environment", <<>>, 0),
      Op("run_command",
         <<"cmake", "--build", BuildDirPath(c), "--target", "bootloader">>,
         0)>>

\* commands::build::execute_clean(cli)
BuildExecuteClean(c) == <<Op("clean", <<>>, 0)>>

\* commands::build::execute_fullclean(cli)
BuildExecuteFullclean(c) == <<Op("remove_dir_all", <<>>, 0)>>

\* commands::build::execute_reconfigure(cli)
BuildExecuteReconfigure(c) ==
    <<Op("setup_idf_environment", <<>>, 0),
      Op("remove_cmake_cache", <<>>, 0),
      Op("get_build_generator", <<>>, 0),
      Op("run_command",
         <<"cmake", "-B", BuildDirPath(c), "-S", ProjectDirPath(c),
           "-G", "$generator">>, 0)>>

\* commands::build::list_build_targets(cli)
BuildListBuildTargets(c) ==
    <<Op("setup_idf_environment", <<>>, 0),
      Op("list_build_targets", <<>>, 0),
      Op("run_command_with_output",
         <<"cmake", "--build", BuildDirPath(c), "--target", "help">>, 0)>>

\* execute_clean: the clean target is run if the build directory exists.
CleanStep ==
    /\ Running /\ Top.op = "clean"
    /\ effects' = Append(effects, FileStat(BuildDirPath(cli)))
    /\ ops' = IF fs.build_dir
              THEN <<Op("run_command",
                        <<"cmake", "--build", BuildDirPath(cli),
                          "--target", "clean">>, 0)>> \o Proceed(ops)
              ELSE Proceed(ops)
    /\ UNCHANGED <<target_os, host, env, fs, argv, pc, parsed, cli, cmds, idx,
                   genres, ret, procs, result>>

\* execute_fullclean: std::fs::remove_dir_all(&build_dir) if it exists.
RemoveDirAll ==
    /\ Running /\ Top.op = "remove_dir_all"
    /\ effects' = effects \o <<FileStat(BuildDirPath(cli))>>
            \o (IF fs.build_dir
                THEN <<Effect("remove", <<BuildDirPath(cli)>>, 0, 0)>>
                ELSE <<>>)
    /\ fs' = [fs EXCEPT !.build_dir = FALSE, !.cache = NoCache,
                        !.app_bin = FALSE, !.bootloader_bin = FALSE,
                        !.elf = FALSE]
    /\ ops' = Proceed(ops)
    /\ UNCHANGED <<target_os, host, env, argv, pc, parsed, cli, cmds, idx,
                   genres, ret, procs, result>>

\* execute_reconfigure: "Remove CMake cache to force reconfigure"
RemoveCmakeCache ==
    /\ Running /\ Top.op = "remove_cmake_cache"
    /\ effects' = effects \o <<FileStat("CMakeCache.txt")>>
            \o (IF fs.cache.exists
                THEN <<Effect("remove", <<"CMakeCache.txt">>, 0, 0)>>
                ELSE <<>>)
    /\ fs' = [fs EXCEPT !.cache = NoCache]
    /\ ops' = Proceed(ops)
    /\ UNCHANGED <<target_os, host, env, argv, pc, parsed, cli, cmds, idx,
                   genres, ret, procs, result>>

\* list_build_targets: without a build directory it prints a hint and
\* returns Ok(()).
ListBuildTargetsCheck ==
    /\ Running /\ Top.op = "list_build_targets"
    /\ effects' = Append(effects, FileStat(BuildDirPath(cli)))
    /\ ops' = IF fs.build_dir THEN Proceed(ops) ELSE <<>>
    /\ UNCHANGED <<target_os, host, env, fs, argv, pc, parsed, cli, cmds, idx,
                   genres, ret, procs, result>>

-----------------------------------------------------------------------------
(* src/commands/flash.rs, config.rs, size.rs: handlers that run a tool. *)

EsptoolPath == "components/esptool_py/esptool/esptool.py"
AppBinPath(c) == BuildDirPath(c) \o "/<project>.bin"
BootloaderBinPath(c) == BuildDirPath(c) \o "/bootloader/bootloader.bin"
ElfPath(c) == BuildDirPath(c) \o "/<project>.elf"

\* The arguments every esptool invocation starts with.
EsptoolArgs(c) ==
    <<"python3", EsptoolPath, "--chip", "auto",
      "--baud", IF c.baud # None THEN c.baud[1] ELSE "460800">>
    \o (IF c.port # None THEN <<"--port", c.port[1]>> ELSE <<>>)

\* commands::flash::execute_app(cli, extra_args, force, trace)
FlashExecuteApp(c, extra_args, force, trace) ==
    <<Op("setup_idf_environment", <<>>, 0),
      Op("build_first", <<"app">>, 0),
      Op("get_idf_path", <<>>, 0),
      Op("run_command",
         EsptoolArgs(c) \o <<"write_flash">>
         \o (IF force THEN <<"--force">> ELSE <<>>)
         \o (IF trace THEN <<"--trace">> ELSE <<>>)
         \o (IF extra_args # None THEN <<extra_args[1]>> ELSE <<>>)
         \o <<"0x10000", AppBinPath(c)>>, 0)>>

\* commands::flash::execute_bootloader(cli)
FlashExecuteBootloader(c) ==
    <<Op("setup_idf_environment", <<>>, 0),
      Op("build_first", <<"bootloader">>, 0),
      Op("get_idf_path", <<>>, 0),
      Op("run_command",
         EsptoolArgs(c)
         \o <<"write_flash", "0x1000", BootloaderBinPath(c)>>, 0)>>

\* commands::flash::execute_erase(cli)
FlashExecuteErase(c) ==
    <<Op("setup_idf_environment", <<>>, 0),
      Op("get_idf_path", <<>>, 0),
      Op("run_command", EsptoolArgs(c) \o <<"erase_flash">>, 0)>>

\* commands::config::execute_menuconfig(cli)
ConfigExecuteMenuconfig(c) ==
    <<Op("setup_idf_environment", <<>>, 0),
      Op("build_first", <<"reconfigure">>, 0),
      Op("run_command",
         <<"cmake", "--build", BuildDirPath(c), "--target", "menuconfig">>,
         0)>>

\* commands::size::execute, execute_components and execute_files: they
\* differ in the option handed to idf_size.py.
SizeExecuteWith(c, option) ==
    <<Op("setup_idf_environment", <<>>, 0),
      Op("require", <<"build_dir">>, 0),
      Op("get_idf_path", <<>>, 0),
      Op("require", <<"elf">>, 0),
      Op("run_command",
         <<"python3", "tools/idf_size.py">> \o option \o <<ElfPath(c)>>, 0)>>

SizeExecute(c) == SizeExecuteWith(c, <<>>)
SizeExecuteComponents(c) == SizeExecuteWith(c, <<"--archives">>)
SizeExecuteFiles(c) == SizeExecuteWith(c, <<"--files">>)

\* What is built first when a binary or the build directory is missing:
\* the path looked at, whether it is missing, and the handler called.
BuildFirstOf(which, c) ==
    CASE which = "app" ->
            [path |-> AppBinPath(c), missing |-> ~fs.app_bin,
             handler |-> BuildExecuteApp(c)]
      [] which = "bootloader" ->
            [path |-> BootloaderBinPath(c), missing |-> ~fs.bootloader_bin,
             handler |-> BuildExecuteBootloader(c)]
      [] which = "reconfigure" ->
            [path |-> BuildDirPath(c), missing |-> ~fs.build_dir,
             handler |-> BuildExecuteReconfigure(c)]

\* "Build app if needed", "Build bootloader if needed", "Ensure build
\* directory exists and is configured"
BuildFirst ==
    /\ Running /\ Top.op = "build_first"
    /\ LET b == BuildFirstOf(Top.cmd[1], cli) IN
        /\ effects' = Append(effects, FileStat(b.path))
        /\ ops' = IF b.missing THEN b.handler \o Proceed(ops)
                  ELSE Proceed(ops)
    /\ UNCHANGED <<target_os, host, env, fs, argv, pc, parsed, cli, cmds, idx,
                   genres, ret, procs, result>>

NoBuildDir == "Build directory doesn't exist. Run 'build' command first."
NoElfFiles == "No ELF files found in build directory. Build the project first."

\* size: the build directory must exist, and hold an ELF file.
Require ==
    /\ Running /\ Top.op = "require"
    /\ effects' = Append(effects,
            IF Top.cmd[1] = "build_dir" THEN FileStat(BuildDirPath(cli))
            ELSE FileRead(BuildDirPath(cli)))
    /\ IF (Top.cmd[1] = "build_dir" /\ fs.build_dir)
          \/ (Top.cmd[1] = "elf" /\ fs.elf)
       THEN /\ ops' = Proceed(ops)
            /\ ret' = ret
       ELSE /\ ops' = Propagate(ops)
            /\ ret' = Some(Err(IF Top.cmd[1] = "build_dir" THEN NoBuildDir
                               ELSE NoElfFiles))
    /\ UNCHANGED <<target_os, host, env, fs, argv, pc, parsed, cli, cmds, idx,
                   genres, procs, result>>

-----------------------------------------------------------------------------
(* src/config.rs: SdkConfig.  A line of sdkconfig is a sequence of atoms    *)
(* like a line of the marker file; a comment line starts with the atom "#". *)

\* str::trim(): the atoms without the leading and trailing blanks (a blank
\* is the atom " ").
Trim(line) ==
    LET inked == {k \in 1..Len(line) : line[k] # " "}
    IN IF inked = {} THEN <<>>
       ELSE SubSeq(line,
                   CHOOSE k \in inked : \A m \in inked : k <= m,
                   CHOOSE k \in inked : \A m \in inked : k >= m)

\* line.split_once('='): the text before and after the first '=', trimmed.
EqPlaces(line) == {k \in 1..Len(line) : line[k] = "="}
SplitOnce(line) ==
    IF EqPlaces(line) = {} THEN None
    ELSE LET k == CHOOSE k \in EqPlaces(line) : \A m \in EqPlaces(line) : k <= m
         IN Some([key |-> Concat(Trim(SubSeq(line, 1, k - 1))),
                  value |-> Concat(Trim(SubSeq(line, k + 1, Len(line))))])

\* HashMap::insert
MapInsert(m, key, value) ==
    [k \in DOMAIN m \cup {key} |-> IF k = key THEN value ELSE m[k]]

SupportedTargets ==
    {"esp32", "esp32s2", "esp32s3", "esp32c2", "esp32c3", "esp32c6",
     "esp32h2", "esp32p4"}

\* format!("\"{}\"", target), and value.trim_matches('"') on the values
\* this model writes
Quoted(target) == "\"" \o target \o "\""
TrimQuotes(value) ==
    IF \E t \in SupportedTargets : value = Quoted(t)
    THEN CHOOSE t \in SupportedTargets : value = Quoted(t)
    ELSE value

EmptySdkConfig == [target |-> None, settings |-> <<>>]

\* SdkConfig::parse_sdkconfig(content)
RECURSIVE ParseSdkconfig(_, _)
ParseSdkconfig(lines, cfg) ==
    IF lines = <<>> THEN cfg
    ELSE LET line == Trim(Head(lines))
             kv == SplitOnce(line)
         IN IF line = <<>> \/ line[1] = "#" \/ kv = None
            THEN ParseSdkconfig(Tail(lines), cfg)
            ELSE ParseSdkconfig(Tail(lines),
                    [target |-> IF kv[1].key = "CONFIG_IDF_TARGET"
                                THEN Some(TrimQuotes(kv[1].value))
                                ELSE cfg.target,
                     settings |-> MapInsert(cfg.settings, kv[1].key,
                                            kv[1].value)])

\* SdkConfig::load_from_file(path) on the file (None when it does not exist)
LoadFromFile(file) ==
    IF file # None THEN ParseSdkconfig(file[1], EmptySdkConfig)
    ELSE EmptySdkConfig

\* The keys this model puts in sdkconfig, in ascending order of their bytes.
SdkconfigKeys == <<"CONFIG_FREERTOS_HZ", "CONFIG_IDF_TARGET", "CONFIG_LOG_LEVEL">>

\* (mutant) only the target is written
ToSdkconfigFormatTargetOnly(cfg) ==
    <<<<"#", " ESP-IDF Configuration">>, <<>>>>
    \o (IF "CONFIG_IDF_TARGET" \in DOMAIN cfg.settings
        THEN <<<<"CONFIG_IDF_TARGET", "=",
                 cfg.settings["CONFIG_IDF_TARGET"]>>>>
        ELSE <<>>)

\* SdkConfig::to_sdkconfig_format(): a header, then key=value by sorted key.
ToSdkconfigFormat(cfg) ==
    LET sorted_keys == SelectSeq(SdkconfigKeys,
                                 LAMBDA k : k \in DOMAIN cfg.settings)
    IN <<<<"#", " ESP-IDF Configuration">>, <<>>>>
       \o [i \in 1..Len(sorted_keys) |->
              <<sorted_keys[i], "=", cfg.settings[sorted_keys[i]]>>]

\* SdkConfig::set_target(target)
SetTargetOf(cfg, target) ==
    [target |-> Some(target),
     settings |-> MapInsert(cfg.settings, "CONFIG_IDF_TARGET", Quoted(target))]

-----------------------------------------------------------------------------
(* src/commands/config.rs: execute_set_target; project.rs: create_project. *)

\* commands::config::execute_set_target(cli, target)
ConfigExecuteSetTarget(c, target) == <<Op("set_target", <<target>>, 0)>>

\* commands::project::create_project(cli, name, path)
ProjectCreateProject(c, name, path) ==
    <<Op("setup_idf_environment", <<>>, 0),
      Op("create_project",
         <<IF path # None THEN path[1] \o "/" \o name ELSE name>>, 0)>>

UnsupportedTarget == "Unsupported target"
DirectoryExists == "Directory already exists"

\* (mutant) sdkconfig is loaded, changed and saved, then the target is
\* validated
SetTargetValidateLast ==
    /\ Running /\ Top.op = "set_target"
    /\ effects' = effects \o <<FileStat("sdkconfig")>>
            \o (IF fs.sdkconfig # None
                THEN <<FileRead("sdkconfig")>> ELSE <<>>)
            \o <<Effect("write", <<"sdkconfig">>, 0, 0)>>
    /\ fs' = [fs EXCEPT !.sdkconfig =
                Some(ToSdkconfigFormat(
                        SetTargetOf(LoadFromFile(fs.sdkconfig),
                                    Top.cmd[1])))]
    /\ IF Top.cmd[1] \notin SupportedTargets
       THEN /\ ops' = Propagate(ops)
            /\ ret' = Some(Err(UnsupportedTarget))
       ELSE /\ ops' = Proceed(ops)
            /\ ret' = ret
    /\ UNCHANGED <<target_os, host, env, argv, pc, parsed, cli, cmds, idx,
                   genres, procs, result>>

\* execute_set_target: the target is validated, then sdkconfig is loaded,
\* changed and saved.
SetTarget ==
    /\ Running /\ Top.op = "set_target"
    /\ IF Top.cmd[1] \notin SupportedTargets
       THEN /\ ops' = Propagate(ops)
            /\ ret' = Some(Err(UnsupportedTarget))
            /\ UNCHANGED <<fs, effects>>
       ELSE /\ effects' = effects \o <<FileStat("sdkconfig")>>
                    \o (IF fs.sdkconfig # None
                        THEN <<FileRead("sdkconfig")>> ELSE <<>>)
                    \o <<Effect("write", <<"sdkconfig">>, 0, 0)>>
            /\ fs' = [fs EXCEPT !.sdkconfig =
                        Some(ToSdkconfigFormat(
                                SetTargetOf(LoadFromFile(fs.sdkconfig),
                                            Top.cmd[1])))]
            /\ ops' = Proceed(ops)
            /\ ret' = ret
    /\ UNCHANGED <<target_os, host, env, argv, pc, parsed, cli, cmds, idx,
                   genres, procs, result>>

\* create_project: the directory must not exist; it is created and filled.
CreateProject ==
    /\ Running /\ Top.op = "create_project"
    /\ IF Top.cmd[1] \in fs.dirs
       THEN /\ effects' = Append(effects, FileStat(Top.cmd[1]))
            /\ ops' = Propagate(ops)
            /\ ret' = Some(Err(DirectoryExists))
            /\ fs' = fs
       ELSE /\ effects' = effects
                    \o <<FileStat(Top.cmd[1]),
                         Effect("write", <<Top.cmd[1]>>, 0, 0)>>
            /\ fs' = [fs EXCEPT !.dirs = @ \cup {Top.cmd[1]}]
            /\ ops' = Proceed(ops)
            /\ ret' = ret
    /\ UNCHANGED <<target_os, host, env, argv, pc, parsed, cli, cmds, idx,
                   genres, procs, result>>

-----------------------------------------------------------------------------
(* src/main.rs: execute_multiple_commands and execute_single_command. *)

UnknownCommand == "Unknown command"

SetTargetRequiresArgument == "set-target requires a target argument"
CreateProjectRequiresName == "create-project requires a project name"

\* (mutant) the match has no arm for monitor
HandledCommandsWithoutMonitor ==
    {"build", "all", "app", "bootloader", "clean", "fullclean", "flash",
     "app-flash", "bootloader-flash", "menuconfig", "set-target",
     "erase-flash", "size", "size-components", "size-files", "reconfigure",
     "create-project", "build-system-targets", "install-alias",
     "uninstall-alias"}

\* The names the match of execute_single_command has an arm for.
HandledCommands ==
    {"build", "all", "app", "bootloader", "clean", "fullclean", "flash",
     "app-flash", "bootloader-flash", "monitor", "menuconfig", "set-target",
     "erase-flash", "size", "size-components", "size-files", "reconfigure",
     "create-project", "build-system-targets", "install-alias",
     "uninstall-alias"}

\* (mutant) a missing argument is reported as an unknown command
DispatchErrAsUnknown(cmd) ==
    IF \/ cmd.name \notin HandledCommands
       \/ (cmd.name \in {"set-target", "create-project"} /\ cmd.args = <<>>)
    THEN Some(Err(UnknownCommand))
    ELSE None

\* The arms of execute_single_command that return Err without calling a
\* handler.
DispatchErr(cmd) ==
    CASE cmd.name = "set-target" /\ cmd.args = <<>> ->
            Some(Err(SetTargetRequiresArgument))
      [] cmd.name = "create-project" /\ cmd.args = <<>> ->
            Some(Err(CreateProjectRequiresName))
      [] cmd.name \notin HandledCommands -> Some(Err(UnknownCommand))
      [] OTHER -> None

\* execute_install_alias(force): on Windows a single step that no action of
\* this model takes, elsewhere the steps of execute_install_alias_unix.
ExecuteInstallAlias(force) ==
    IF target_os = "windows" THEN <<Op("handler", <<"install-alias">>, 0)>>
    ELSE <<Op("which", <<"idf.py">>, 0),
           Op("which", <<"idf-rs">>, 0),
           Op("backup_check", IF force THEN <<"--force">> ELSE <<>>, 0),
           Op("link_check", <<>>, 0),
           Op("rename_to_backup", <<>>, 0),
           Op("symlink", <<>>, 0)>>

\* execute_uninstall_alias(): likewise, execute_uninstall_alias_unix.
ExecuteUninstallAlias ==
    IF target_os = "windows" THEN <<Op("handler", <<"uninstall-alias">>, 0)>>
    ELSE <<Op("which", <<"idf.py">>, 0),
           Op("restore_check", <<>>, 0),
           Op("remove_link", <<>>, 0),
           Op("rename_from_backup", <<>>, 0)>>

\* Command::new("which").arg(name).output(): `which` may fail to start; it
\* finds idf.py when the path holds something, idf-rs when it is installed.
Which ==
    /\ Running /\ Top.op = "which"
    /\ \E outcome \in {"spawn_error", "found", "not_found"} :
          /\ Top.cmd = <<"idf.py">> =>
                (outcome = "found" => fs.idf_py # Absent)
                /\ (outcome = "not_found" => fs.idf_py = Absent)
          /\ IF outcome = "found"
             THEN /\ ops' = Proceed(ops)
                  /\ ret' = ret
             ELSE /\ ops' = Propagate(ops)
                  /\ ret' = Some(Err(IF outcome = "spawn_error"
                                     THEN "Failed to locate" ELSE "not found in PATH"))
    /\ UNCHANGED <<target_os, host, env, fs, argv, pc, parsed, cli, cmds, idx,
                   genres, procs, effects, result>>

\* install: "Check if backup already exists"
BackupCheck ==
    /\ Running /\ Top.op = "backup_check"
    /\ effects' = Append(effects, FileStat("idf-old.py"))
    /\ IF fs.idf_old_py = Absent
       THEN /\ ops' = Proceed(ops)
            /\ UNCHANGED <<fs, ret>>
       ELSE IF Top.cmd = <<>>
       THEN /\ ops' = Propagate(ops)
            /\ ret' = Some(Err("Backup already exists"))
            /\ fs' = fs
       ELSE \E removed \in BOOLEAN :
               IF removed
               THEN /\ fs' = [fs EXCEPT !.idf_old_py = Absent]
                    /\ ops' = Proceed(ops)
                    /\ ret' = ret
               ELSE /\ fs' = fs
                    /\ ops' = Propagate(ops)
                    /\ ret' = Some(Err("Failed to remove existing backup"))
    /\ UNCHANGED <<target_os, host, env, argv, pc, parsed, cli, cmds, idx,
                   genres, procs, result>>

\* install: "Check if idf.py is already a symlink to idf-rs": return Ok(())
LinkCheck ==
    /\ Running /\ Top.op = "link_check"
    /\ ops' = IF fs.idf_py = LinkToIdfRs THEN <<>> ELSE Proceed(ops)
    /\ UNCHANGED <<target_os, host, env, fs, argv, pc, parsed, cli, cmds, idx,
                   genres, ret, procs, effects, result>>

\* install: "Step 1: Rename idf.py to idf-old.py"
RenameToBackup ==
    /\ Running /\ Top.op = "rename_to_backup"
    /\ \E renamed \in BOOLEAN :
          IF renamed
          THEN /\ fs' = [fs EXCEPT !.idf_old_py = fs.idf_py,
                                   !.idf_py = Absent]
               /\ ops' = Proceed(ops)
               /\ ret' = ret
          ELSE /\ fs' = fs
               /\ ops' = Propagate(ops)
               /\ ret' = Some(Err("Failed to create backup"))
    /\ UNCHANGED <<target_os, host, env, argv, pc, parsed, cli, cmds, idx,
                   genres, procs, effects, result>>

\* install: "Step 2: Create symlink from idf.py to idf-rs", and the attempt
\* to rename the backup back when that fails
Symlink ==
    /\ Running /\ Top.op = "symlink"
    /\ \E linked \in BOOLEAN : \E restored \in BOOLEAN :
          IF linked
          THEN /\ restored
               /\ fs' = [fs EXCEPT !.idf_py = LinkToIdfRs]
               /\ ops' = Proceed(ops)
               /\ ret' = ret
          ELSE /\ fs' = IF restored
                        THEN [fs EXCEPT !.idf_py = fs.idf_old_py,
                                        !.idf_old_py = Absent]
                        ELSE fs
               /\ ops' = Propagate(ops)
               /\ ret' = Some(Err("Failed to create symlink"))
    /\ UNCHANGED <<target_os, host, env, argv, pc, parsed, cli, cmds, idx,
                   genres, procs, effects, result>>

\* uninstall: "Check if backup exists", "Check if current idf.py is our
\* symlink"
RestoreCheck ==
    /\ Running /\ Top.op = "restore_check"
    /\ effects' = Append(effects, FileStat("idf-old.py"))
    /\ IF fs.idf_old_py = Absent
       THEN /\ ops' = Propagate(ops)
            /\ ret' = Some(Err("No backup found"))
       ELSE IF fs.idf_py # LinkToIdfRs
       THEN /\ ops' = Propagate(ops)
            /\ ret' = Some(Err("is not a symlink"))
       ELSE /\ ops' = Proceed(ops)
            /\ ret' = ret
    /\ UNCHANGED <<target_os, host, env, fs, argv, pc, parsed, cli, cmds, idx,
                   genres, procs, result>>

\* uninstall: "Remove the symlink"
RemoveLink ==
    /\ Running /\ Top.op = "remove_link"
    /\ \E removed \in BOOLEAN :
          IF removed
          THEN /\ fs' = [fs EXCEPT !.idf_py = Absent]
               /\ ops' = Proceed(ops)
               /\ ret' = ret
          ELSE /\ fs' = fs
               /\ ops' = Propagate(ops)
               /\ ret' = Some(Err("Failed to remove symlink"))
    /\ UNCHANGED <<target_os, host, env, argv, pc, parsed, cli, cmds, idx,
                   genres, procs, effects, result>>

\* uninstall: "Restore the backup"
RenameFromBackup ==
    /\ Running /\ Top.op = "rename_from_backup"
    /\ \E renamed \in BOOLEAN :
          IF renamed
          THEN /\ fs' = [fs EXCEPT !.idf_py = fs.idf_old_py,
                                   !.idf_old_py = Absent]
               /\ ops' = Proceed(ops)
               /\ ret' = ret
          ELSE /\ fs' = fs
               /\ ops' = Propagate(ops)
               /\ ret' = Some(Err("Failed to restore backup"))
    /\ UNCHANGED <<target_os, host, env, argv, pc, parsed, cli, cmds, idx,
                   genres, procs, effects, result>>

\* execute_single_command(cli, cmd): the steps of the handler it calls.
ExecuteSingleCommand(c, cmd) ==
    CASE cmd.name \in {"build", "all"} -> BuildExecute(c, cmd.args)
      [] cmd.name = "app" -> BuildExecuteApp(c)
      [] cmd.name = "bootloader" -> BuildExecuteBootloader(c)
      [] cmd.name = "clean" -> BuildExecuteClean(c)
      [] cmd.name = "fullclean" -> BuildExecuteFullclean(c)
      [] cmd.name = "flash" -> FlashExecute(c, cmd.args, None, FALSE, FALSE)
      [] cmd.name = "app-flash" -> FlashExecuteApp(c, None, FALSE, FALSE)
      [] cmd.name = "bootloader-flash" -> FlashExecuteBootloader(c)
      [] cmd.name = "monitor" -> MonitorExecute(c, cmd.args)
      [] cmd.name = "menuconfig" -> ConfigExecuteMenuconfig(c)
      [] cmd.name = "set-target" -> ConfigExecuteSetTarget(c, cmd.args[1])
      [] cmd.name = "erase-flash" -> FlashExecuteErase(c)
      [] cmd.name = "size" -> SizeExecute(c)
      [] cmd.name = "size-components" -> SizeExecuteComponents(c)
      [] cmd.name = "size-files" -> SizeExecuteFiles(c)
      [] cmd.name = "reconfigure" -> BuildExecuteReconfigure(c)
      [] cmd.name = "create-project" ->
            ProjectCreateProject(c, cmd.args[1], None)
      [] cmd.name = "build-system-targets" -> BuildListBuildTargets(c)
      [] cmd.name = "install-alias" -> ExecuteInstallAlias(FALSE)
      [] cmd.name = "uninstall-alias" -> ExecuteUninstallAlias
      [] OTHER -> <<Op("handler", <<cmd.name>>, 0)>>

Called(name, i, n) == Effect("call", <<name>>, i, n)
\* (history) the generator the marker file records when command i is called
Marker(f, i, n) ==
    Effect("marker",
           IF GetGeneratorFromCache(f) # None
           THEN <<GetGeneratorFromCache(f)[1]>> ELSE <<>>, i, n)
Returned(r, i, n) ==
    Effect("return", IF r.ok THEN <<"ok">> ELSE <<"err", r.val>>, i, n)

\* The loop calls execute_single_command on command idx.
LoopCall ==
    /\ pc = "loop" /\ idx <= Len(cmds)
    /\ effects' = effects
            \o <<Report("Executing command", cmds[idx].name, idx, Len(cmds)),
                 Marker(fs, idx, Len(cmds)),
                 Called(cmds[idx].name, idx, Len(cmds))>>
    /\ pc' = "cmd"
    /\ ret' = DispatchErr(cmds[idx])
    /\ ops' = IF DispatchErr(cmds[idx]) = None
              THEN ExecuteSingleCommand(cli, cmds[idx])
              ELSE <<>>
    /\ UNCHANGED <<target_os, host, env, fs, argv, parsed, cli, cmds, idx,
                   genres, procs, result>>

\* What the handler returned: its Err, or Ok(()) from its last line.
Returns == IF ret # None THEN ret[1] ELSE Ok("()")

\* (mutant) the loop goes on after a failed command
MatchResultContinue(r) ==
    [pc |-> "loop", idx |-> idx + 1, result |-> None,
     report |-> IF r.ok THEN "completed successfully" ELSE "failed"]

\* (mutant) a failed command is reported as completed
MatchResultReportsSuccess(r) ==
    IF r.ok
    THEN [pc |-> "loop", idx |-> idx + 1, result |-> None,
          report |-> "completed successfully"]
    ELSE [pc |-> "done", idx |-> idx, result |-> Some(r),
          report |-> "completed successfully"]

\* The match on what execute_single_command returned: Ok goes on with the
\* next command, Err(e) reports and returns Err(e).
MatchResult(r) ==
    IF r.ok
    THEN [pc |-> "loop", idx |-> idx + 1, result |-> None,
          report |-> "completed successfully"]
    ELSE [pc |-> "done", idx |-> idx, result |-> Some(r), report |-> "failed"]

\* execute_single_command has returned to the loop.
LoopReturned ==
    /\ pc = "cmd" /\ parsed.ok /\ ops = <<>>
    /\ effects' = effects
            \o <<Returned(Returns, idx, Len(cmds)),
                 Report(MatchResult(Returns).report, cmds[idx].name, idx,
                        Len(cmds))>>
    /\ pc' = MatchResult(Returns).pc
    /\ idx' = MatchResult(Returns).idx
    /\ result' = MatchResult(Returns).result
    /\ ret' = None
    /\ UNCHANGED <<target_os, host, env, fs, argv, parsed, cli, cmds, ops,
                   genres, procs>>

\* The loop is over: "All commands completed successfully!"
LoopDone ==
    /\ pc = "loop" /\ idx > Len(cmds)
    /\ effects' = Append(effects,
            Report("All commands completed successfully", "", 0, Len(cmds)))
    /\ result' = Some(Ok("()"))
    /\ pc' = "done"
    /\ UNCHANGED <<target_os, host, env, fs, argv, parsed, cli, cmds, idx,
                   ops, genres, ret, procs>>

-----------------------------------------------------------------------------
(* src/main.rs: main after parse_multiple_commands returned Err. *)

\* args.windows(2).any(|w| w[0] == "flash" && w[1] == "monitor")
HasFlashMonitor(args) ==
    \E k \in 1..(Len(args) - 1) : args[k] = "flash" /\ args[k + 1] = "monitor"

\* The match on cli.command: the steps of the handler it calls.
MainMatch(c, args) ==
    LET sub == c.command[1] IN
    CASE sub.name = "build" -> BuildExecute(c, sub.args)
      [] sub.name = "flash" ->
            FlashExecute(c, sub.args, sub.extra_args, sub.force, sub.trace)
            \o (IF HasFlashMonitor(args) THEN MonitorExecute(c, <<>>)
                ELSE <<>>)
      [] sub.name = "monitor" -> MonitorExecute(c, sub.args)
      [] sub.name = "install-alias" -> ExecuteInstallAlias(sub.force)
      [] sub.name = "uninstall-alias" -> ExecuteUninstallAlias
      [] OTHER -> <<Op("handler", <<sub.name>>, 0)>>

\* Cli::parse, the global flags, and the call of the command's handler.
MainCliParse ==
    /\ pc = "cli_parse"
    /\ LET r == CliParse(argv) IN
        IF ~r.ok
        THEN /\ pc' = "done"
             /\ result' = Some(r)
             /\ UNCHANGED <<cli, ops, effects>>
        ELSE IF r.val.idf_version \/ r.val.list_targets \/ r.val.command = None
        THEN /\ pc' = "done"
             /\ result' = Some(Ok("()"))
             /\ cli' = r.val
             /\ UNCHANGED <<ops, effects>>
        ELSE /\ pc' = "cmd"
             /\ cli' = r.val
             /\ ops' = MainMatch(r.val, argv)
             /\ effects' = Append(effects, Called(r.val.command[1].name, 0, 0))
             /\ result' = result
    /\ UNCHANGED <<target_os, host, env, fs, argv, parsed, cmds, idx, genres,
                   ret, procs>>

\* The handler main called has returned, and main returns what it did.
MainReturned ==
    /\ pc = "cmd" /\ ~parsed.ok /\ ops = <<>> /\ cli.command # None
    /\ effects' = Append(effects, Returned(Returns, 0, 0))
    /\ result' = Some(Returns)
    /\ pc' = "done"
    /\ ret' = None
    /\ UNCHANGED <<target_os, host, env, fs, argv, parsed, cli, cmds, idx,
                   ops, genres, procs>>

-----------------------------------------------------------------------------
(* The resolver on its own: get_build_generator called once, for every     *)
(* explicit choice, marker file and host.                                  *)

RECURSIVE SeqsUpTo(_, _)
SeqsUpTo(S, n) ==
    IF n = 0 THEN {<<>>}
    ELSE SeqsUpTo(S, n - 1)
         \cup {Append(s, x) : s \in {t \in SeqsUpTo(S, n - 1) : Len(t) = n - 1}, x \in S}

CacheLines ==
    {GeneratorLine("Ninja"),
     GeneratorLine("Unix Makefiles"),
     <<CacheKey, "=", "Ninja", "=", "Multi-Config">>,
     <<CacheKey, "=">>,
     <<"CMAKE_EXTRA_GENERATOR:INTERNAL", "=", "Xcode">>}

GenFiles ==
    {NoFiles, BuildDirWith(NoCache), BuildDirWith(UnreadableCache)}
    \cup {BuildDirWith(CacheFile(ls)) :
            ls \in SeqsUpTo(CacheLines, MaxCacheLines)}

ExplicitChoices == {None, Some("Ninja"), Some("Unix Makefiles"), Some("Xcode")}

InitGen ==
    /\ target_os \in Platforms
    /\ host \in [Executables -> Outcomes]
    /\ env = {"IDF_PATH"}
    /\ fs \in GenFiles
    /\ argv = <<"idf-rs">>
    /\ pc = "cmd"
    /\ parsed = NoParse
    /\ cli \in {[DefaultCli EXCEPT !.generator = g] : g \in ExplicitChoices}
    /\ cmds = <<>>
    /\ idx = 0
    /\ ops = <<Op("get_build_generator", <<>>, 0)>>
    /\ genres = None
    /\ ret = None
    /\ procs = {}
    /\ effects = <<>>
    /\ result = None

NextGen == GetBuildGenerator \/ DetectProbe \/ DetectBail \/ ProcExit

SpecGen == InitGen /\ [][NextGen]_vars

-----------------------------------------------------------------------------
(* Properties of the resolver (checked under SpecGen). *)

\* get_build_generator has returned (to a caller that, on Err, returned).
Resolved == ops = <<>> /\ genres # None

\* The command lines executed so far, in order.
Execs == SelectSeq(effects, LAMBDA e : e.kind = "exec")
ExecLines == [i \in 1..Len(Execs) |-> Execs[i].arg]
MarkerAccesses ==
    SelectSeq(effects, LAMBDA e : e.kind \in {"stat", "read"}
                                  /\ e.arg = <<"CMakeCache.txt">>)

\* The probe command lines of the registry, in iteration order.
ProbeLines(os) ==
    [i \in 1..Len(GetGenerators(os)) |-> GetGenerators(os)[i].value.version]

\* The registry entries whose probe exits with status zero on this host.
Available ==
    {i \in 1..Len(GetGenerators(target_os)) :
        host[ProbeLines(target_os)[i][1]] = "exit_zero"}

Min(S) == CHOOSE x \in S : \A y \in S : x <= y

\* C4: with an explicit generator X, get_build_generator returns X verbatim,
\* whatever the registry, the build directory and the host's tools are, and
\* it executes no probe and does not touch the marker file.
C4_ExplicitReturnedVerbatim ==
    (cli.generator # None /\ ops = <<>>) =>
        /\ genres = Some(Ok(cli.generator[1]))
        /\ ret = None
        /\ Execs = <<>>
        /\ MarkerAccesses = <<>>

\* an explicit generator outside the registry, a marker file naming another
\* generator and no tool on the host
C4_Witness ==
    /\ Resolved
    /\ cli.generator = Some("Xcode")
    /\ genres = Some(Ok("Xcode"))
    /\ GetGeneratorFromCache(fs) = Some("Ninja")
    /\ \A e \in Executables : host[e] = "spawn_error"

\* The key lines of a marker file, and the whole text after the key and '='.
KeyLines(f) == SelectSeq(f.cache.lines, StartsWithKey)
FullValue(line) == Concat(SubSeq(line, 3, Len(line)))

\* C5: with no explicit generator and a readable marker file whose (first)
\* line with key CMAKE_GENERATOR:INTERNAL reads ...=G, get_build_generator
\* returns G whatever the probes would do, and executes no probe.
C5_CachedReturned ==
    (cli.generator = None /\ ops = <<>>
     /\ fs.cache.exists /\ fs.cache.readable /\ KeyLines(fs) # <<>>) =>
        /\ genres = Some(Ok(FullValue(KeyLines(fs)[1])))
        /\ Execs = <<>>

\* What of C5 the code does keep: a marker file naming a generator is
\* returned from without any probe, and the value returned is the text
\* between the first and the second '=' of that line.
CachedBeforeProbing ==
    (cli.generator = None /\ ops = <<>>
     /\ fs.cache.exists /\ fs.cache.readable /\ KeyLines(fs) # <<>>) =>
        /\ genres = Some(Ok(Concat(SplitEq(KeyLines(fs)[1], <<>>)[2])))
        /\ Execs = <<>>

\* C6: with no explicit generator and no marker file, the registry is probed
\* in iteration order up to and including the first entry whose probe exits
\* zero, whose name is returned; when no probe does, every entry was probed
\* and the call fails with the error naming 'ninja' and 'make'.
C6_FirstAvailable ==
    (cli.generator = None /\ ~fs.cache.exists /\ ops = <<>>) =>
        IF Available # {}
        THEN /\ genres = Some(Ok(GetGenerators(target_os)[Min(Available)].key))
             /\ ret = None
             /\ ExecLines = SubSeq(ProbeLines(target_os), 1, Min(Available))
        ELSE /\ genres = Some(Err(NoGeneratorFound))
             /\ ret = Some(Err(NoGeneratorFound))
             /\ ExecLines = ProbeLines(target_os)

\* both tools present: only ninja was probed
C6_Witness ==
    /\ Resolved /\ cli.generator = None /\ ~fs.cache.exists
    /\ target_os = "linux"
    /\ host["ninja"] = "exit_zero" /\ host["make"] = "exit_zero"
    /\ genres = Some(Ok("Ninja"))
    /\ ExecLines = <<<<"ninja", "--version">>>>

\* C7: off Windows the registry iterates 'Ninja' first and 'Unix Makefiles'
\* after it, which is the order they were inserted in, and detection probes
\* in that order.
C7_RegistryOrder ==
    target_os # "windows" =>
        /\ Keys(GetGenerators(target_os)) = <<"Ninja", "Unix Makefiles">>
        /\ Keys(GetGenerators(target_os)) = Keys(GeneratorInserts(target_os))
        /\ \A i \in 1..Len(ExecLines) :
              ExecLines[i] = GeneratorInserts(target_os)[i].value.version

\* both entries were probed, ninja's first
C7_Witness ==
    /\ target_os = "linux"
    /\ ExecLines = <<<<"ninja", "--version">>, <<"make", "--version">>>>

\* C8: executable_exists yields true exactly for a non-empty probe whose
\* child was spawned and exited zero, and false (never an error) for a
\* probe that cannot be spawned, exits non-zero or is empty; detection
\* therefore goes on after a spawn failure, and its only error is
\* no-generator-found.
C8_ProbeNeverFails ==
    /\ \A e \in Executables :
          /\ ExecutableExists(<<e, "--version">>, host[e]) = (host[e] = "exit_zero")
          /\ ExecutableExists(<<>>, host[e]) = FALSE
    /\ (cli.generator = None /\ GetGeneratorFromCache(fs) = None /\ ops = <<>>) =>
          /\ genres # None
          /\ genres[1].ok = (Available # {})
          /\ ~genres[1].ok => genres[1].val = NoGeneratorFound
          /\ Len(Execs) =
                IF Available # {} THEN Min(Available)
                ELSE Len(GetGenerators(target_os))

\* ninja cannot be spawned, and detection went on to make
C8_Witness ==
    /\ Resolved /\ cli.generator = None /\ GetGeneratorFromCache(fs) = None
    /\ target_os = "linux"
    /\ host["ninja"] = "spawn_error" /\ host["make"] = "exit_zero"
    /\ genres = Some(Ok("Unix Makefiles"))
    /\ ExecLines = <<<<"ninja", "--version">>, <<"make", "--version">>>>

-----------------------------------------------------------------------------
(* The tokenizer on its own: main's first step, for every argument vector. *)

TokAlphabet ==
    {"build", "flash", "monitor",
     "-v", "--verbose", "--preview", "--ccache", "--no-ccache", "--no-hints",
     "-G", "-D", "-p", "-b", "-C", "-B", "COM3"}

InitTok ==
    /\ target_os = "linux"
    /\ host = [e \in Executables |-> "spawn_error"]
    /\ env = {}
    /\ fs = NoFiles
    /\ \E n \in 0..MaxTokArgs : \E t \in [1..n -> TokAlphabet] :
          argv = <<"idf-rs">> \o t
    /\ pc = "start"
    /\ parsed = NoParse
    /\ cli = DefaultCli
    /\ cmds = <<>>
    /\ idx = 0
    /\ ops = <<>>
    /\ genres = None
    /\ ret = None
    /\ procs = {}
    /\ effects = <<>>
    /\ result = None

SpecTok == InitTok /\ [][MainStart]_vars

\* The places of argv (after the program name) that hold a known command
\* name, and the j-th of them.
KnownAt == {i \in 2..Len(argv) : argv[i] \in KnownCommands}
KnownPlace(j) == CHOOSE i \in KnownAt : Cardinality({k \in KnownAt : k < i}) = j - 1

C10_ArgsBetweenCommands ==
    (pc # "start" /\ Cardinality(KnownAt) >= 2) =>
        /\ parsed.ok
        /\ Len(parsed.commands) = Cardinality(KnownAt)
        /\ \A j \in 1..Len(parsed.commands) :
              /\ parsed.commands[j].name = argv[KnownPlace(j)]
              /\ parsed.commands[j].args =
                    SubSeq(argv, KnownPlace(j) + 1,
                           IF j < Cardinality(KnownAt)
                           THEN KnownPlace(j + 1) - 1 ELSE Len(argv))

\* build flash -p COM3
C10_Witness ==
    /\ argv = <<"idf-rs", "build", "flash", "-p", "COM3">>
    /\ pc = "loop"
    /\ cmds = <<ParsedCommand("build", <<>>),
                ParsedCommand("flash", <<"-p", "COM3">>)>>

\* The spellings of each boolean global option.
BoolSpellings ==
    [verbose |-> {"-v", "--verbose"}, preview |-> {"--preview"},
     ccache |-> {"--ccache"}, no_ccache |-> {"--no-ccache"},
     no_hints |-> {"--no-hints"}]

\* The place of the first known command name, and the tokens before it.
FirstKnown == CHOOSE i \in KnownAt : \A k \in KnownAt : i <= k
GlobalTokens == {argv[i] : i \in 2..(FirstKnown - 1)}

\* C11: in a chained invocation each boolean global option is set exactly
\* when one of its spellings stands before the first known command name; a
\* spelling after a command name is an element of that command's args and
\* sets nothing.
C11_BoolGlobalsBeforeFirstCommand ==
    (pc # "start" /\ parsed.ok) =>
        /\ cli = parsed.global_args
        /\ \A f \in DOMAIN BoolSpellings :
              cli[f] <=> (GlobalTokens \cap BoolSpellings[f] # {})
        /\ parsed.locals.global_args = SubSeq(argv, 2, FirstKnown - 1)
        /\ \A i \in (FirstKnown + 1)..Len(argv) :
              argv[i] \in UNION {BoolSpellings[f] : f \in DOMAIN BoolSpellings}
              => \E j \in 1..Len(cmds) :
                    /\ KnownPlace(j) < i
                    /\ i - KnownPlace(j) <= Len(cmds[j].args)
                    /\ cmds[j].args[i - KnownPlace(j)] = argv[i]

\* --preview build flash -v: preview is set, and -v goes to flash
C11_Witness ==
    /\ argv = <<"idf-rs", "--preview", "build", "flash", "-v">>
    /\ pc = "loop"
    /\ cli.preview /\ ~cli.verbose
    /\ cmds[2] = ParsedCommand("flash", <<"-v">>)

\* C12: in a returned sequence no command's args holds a known command
\* name, and there are as many commands as known-command tokens in argv.
C12_EveryKnownTokenStartsCommand ==
    (pc # "start" /\ parsed.ok) =>
        /\ Len(parsed.commands) = Cardinality(KnownAt)
        /\ \A j \in 1..Len(parsed.commands) :
              /\ parsed.commands[j].name \in KnownCommands
              /\ \A k \in 1..Len(parsed.commands[j].args) :
                    parsed.commands[j].args[k] \notin KnownCommands

\* flash -p monitor: monitor is a command, not the value of -p
C12_Witness ==
    /\ argv = <<"idf-rs", "flash", "-p", "monitor">>
    /\ pc = "loop"
    /\ cmds = <<ParsedCommand("flash", <<"-p">>),
                ParsedCommand("monitor", <<>>)>>

\* C13: the shared options of a chained invocation have generator,
\* define_cache_entry, port, baud, project_dir and build_dir unset, whatever
\* -G/-D/-p/-b/-C/-B tokens argv holds.
C13_ValueOptionsUnset ==
    (pc # "start" /\ parsed.ok) =>
        \A f \in {"generator", "define_cache_entry", "port", "baud",
                  "project_dir", "build_dir"} :
            parsed.global_args[f] = None /\ cli[f] = None

\* -p COM3 build flash
C13_Witness ==
    /\ argv = <<"idf-rs", "-p", "COM3", "build", "flash">>
    /\ pc = "loop"
    /\ parsed.locals.global_args = <<"-p", "COM3">>
    /\ cli.port = None

-----------------------------------------------------------------------------
(* Whole runs of main. *)

RunAlphabet == {"build", "flash", "monitor", "-p", "COM3"}

RunHosts ==
    {h \in [Executables -> Outcomes] :
        /\ h["gmake"] = "spawn_error"
        /\ h["ninja"] \in {"exit_zero", "spawn_error"}
        /\ h["make"] \in {"exit_zero", "exit_nonzero"}}

RunFiles ==
    {NoFiles, BuildDirWith(CacheFile(<<GeneratorLine("Ninja")>>))}

Init ==
    /\ target_os = "linux"
    /\ host \in RunHosts
    /\ env \in {{}, {"IDF_PATH"}}
    /\ fs \in RunFiles
    /\ argv \in {<<"idf-rs">> \o t : t \in SeqsUpTo(RunAlphabet, MaxRunArgs)}
    /\ pc = "start"
    /\ parsed = NoParse
    /\ cli = DefaultCli
    /\ cmds = <<>>
    /\ idx = 0
    /\ ops = <<>>
    /\ genres = None
    /\ ret = None
    /\ procs = {}
    /\ effects = <<>>
    /\ result = None

Next ==
    \/ MainStart \/ LoopCall \/ LoopReturned \/ LoopDone
    \/ MainCliParse \/ MainReturned
    \/ CheckIdfPath \/ BuildIfNoBuildDir \/ SetEnvVars \/ RemoveEnvVars
    \/ GetBuildGenerator \/ DetectProbe \/ DetectBail
    \/ RunCommand \/ ProcExit

Spec == Init /\ [][Next]_vars

-----------------------------------------------------------------------------
(* Properties of whole runs (checked under Spec). *)

\* The calls of execute_single_command so far and what they returned.
Calls == SelectSeq(effects, LAMBDA e : e.kind = "call")
Rets == SelectSeq(effects, LAMBDA e : e.kind = "return")

\* C1: in a chained invocation the commands dispatched so far are c1..ck in
\* sequence order, each dispatched only after the one before it returned
\* Ok; once one returns Err no further command is dispatched and the run
\* returns that error, and the run returns Ok only after all n returned Ok.
C1_InOrderStopAtFirstFailure ==
    parsed.ok =>
        /\ Len(Calls) <= Len(cmds)
        /\ \A k \in 1..Len(Calls) :
              Calls[k].i = k /\ Calls[k].arg = <<cmds[k].name>>
        /\ Len(Rets) <= Len(Calls) /\ Len(Calls) <= Len(Rets) + 1
        /\ \A k \in 1..Len(Rets) :
              /\ Rets[k].i = k
              /\ k < Len(Calls) => Rets[k].arg = <<"ok">>
              /\ Rets[k].arg # <<"ok">> =>
                    /\ Len(Calls) = k
                    /\ pc = "done"
                    /\ result = Some(Err(Rets[k].arg[2]))
        /\ (result # None /\ result[1].ok) =>
              /\ Len(Rets) = Len(cmds)
              /\ \A k \in 1..Len(Rets) : Rets[k].arg = <<"ok">>
        /\ pc = "done" => result # None

\* three commands, the second failed, the third was never dispatched
C1_Witness ==
    /\ parsed.ok /\ Len(cmds) = 3 /\ pc = "done"
    /\ Len(Calls) = 2 /\ Len(Rets) = 2
    /\ Rets[1].arg = <<"ok">> /\ Rets[2].arg # <<"ok">>
    /\ result = Some(Err(Rets[2].arg[2]))

\* C2: at most one spawned child process is alive at any point of a run,
\* and it is the one the running step is blocked on: a child has exited
\* before the next tool or the next command is started.
C2_OneProcessAtATime ==
    /\ Cardinality(procs) <= 1
    /\ \A p \in procs : Running /\ Top.wait /\ Top.pid = p.at
    /\ pc \in {"start", "loop", "cli_parse", "done"} => procs = {}

\* the second command's tool is running, after the tools of the first exited
C2_Witness ==
    /\ parsed.ok /\ Len(Calls) = 2 /\ Len(Rets) = 1
    /\ Len(Execs) >= 2
    /\ procs # {}

\* C3: whenever flash has returned, with success or with an error, neither
\* ESPPORT nor ESPBAUD (unset when the run began) is set in the environment.
C3_EnvClearedOnEveryPath ==
    (pc \in {"loop", "done"} /\ \E k \in 1..Len(Calls) : Calls[k].arg = <<"flash">>) =>
        env \cap {"ESPPORT", "ESPBAUD"} = {}
\* The reports of execute_multiple_commands so far, by what they say.
Reports(what) ==
    SelectSeq(effects, LAMBDA e : e.kind = "print" /\ e.arg[1] = what)
Succeeded == Reports("completed successfully")
Failed == Reports("failed")
AllCompleted == Reports("All commands completed successfully")

\* C17: at most one failure report is printed, for the first failing
\* command k of n, after success reports for 1..k-1 in that order and as the
\* last thing the sequence does; "All commands completed successfully" is
\* printed only after n success reports and no failure.
C17_ReportsOfTheSequence ==
    parsed.ok =>
        /\ Len(Failed) <= 1
        /\ Len(Rets) = Len(Succeeded) + Len(Failed)
        /\ \A i \in 1..Len(Succeeded) :
              /\ Succeeded[i].i = i /\ Succeeded[i].n = Len(cmds)
              /\ Succeeded[i].arg[2] = cmds[i].name
              /\ Rets[i].arg = <<"ok">>
        /\ Len(Failed) = 1 =>
              LET k == Failed[1].i IN
              /\ k = Len(Succeeded) + 1 /\ Failed[1].n = Len(cmds)
              /\ Failed[1].arg[2] = cmds[k].name
              /\ Rets[k].arg # <<"ok">>
              /\ effects[Len(effects)] = Failed[1]
              /\ AllCompleted = <<>>
              /\ pc = "done" /\ result = Some(Err(Rets[k].arg[2]))
        /\ (result # None /\ ~result[1].ok) => Len(Failed) = 1
        /\ Len(AllCompleted) <= 1
        /\ AllCompleted # <<>> =>
              /\ Failed = <<>>
              /\ Len(Succeeded) = Len(cmds)
              /\ result = Some(Ok("()"))

\* three commands, the second of which failed
C17_Witness ==
    /\ parsed.ok /\ Len(cmds) = 3 /\ pc = "done"
    /\ Len(Succeeded) = 1
    /\ Len(Failed) = 1 /\ Failed[1].i = 2 /\ Failed[1].n = 3

-----------------------------------------------------------------------------
(* The dispatch of every command: chained invocations of one command with  *)
(* its trailing arguments and one command after it.                        *)

\* The commands whose handlers this model follows step by step.
CmdNames == KnownCommands \ {"install-alias", "uninstall-alias"}
CmdArgAlphabet == {"esp32", "bogus"}
FollowUps == {"build", "reconfigure"}

\* A finished build: marker file, binaries and ELF file in place.
Built(g) ==
    [BuildDirWith(CacheFile(<<GeneratorLine(g)>>)) EXCEPT
        !.app_bin = TRUE, !.bootloader_bin = TRUE, !.elf = TRUE]

SomeSdkconfig ==
    Some(<<<<"CONFIG_LOG_LEVEL", "=", "3">>,
           <<"CONFIG_IDF_TARGET", "=", Quoted("esp32s3")>>>>)

CmdFiles ==
    {NoFiles,
     [NoFiles EXCEPT !.sdkconfig = SomeSdkconfig],
     BuildDirWith(CacheFile(<<GeneratorLine("Unix Makefiles")>>)),
     Built("Ninja"),
     [Built("Unix Makefiles") EXCEPT !.sdkconfig = SomeSdkconfig,
                                     !.dirs = {"esp32"}]}

InitCmd ==
    /\ target_os = "linux"
    /\ host \in RunHosts
    /\ env \in {{}, {"IDF_PATH"}}
    /\ fs \in CmdFiles
    /\ \E c1 \in CmdNames : \E n \in 0..MaxCmdArgs :
       \E a1 \in [1..n -> CmdArgAlphabet] : \E c2 \in FollowUps :
          argv = <<"idf-rs", c1>> \o a1 \o <<c2>>
    /\ pc = "start"
    /\ parsed = NoParse
    /\ cli = DefaultCli
    /\ cmds = <<>>
    /\ idx = 0
    /\ ops = <<>>
    /\ genres = None
    /\ ret = None
    /\ procs = {}
    /\ effects = <<>>
    /\ result = None

NextCmd ==
    \/ MainStart \/ LoopCall \/ LoopReturned \/ LoopDone
    \/ CheckIdfPath \/ BuildIfNoBuildDir \/ SetEnvVars \/ RemoveEnvVars
    \/ GetBuildGenerator \/ DetectProbe \/ DetectBail
    \/ RunCommand \/ ProcExit
    \/ CleanStep \/ RemoveDirAll \/ RemoveCmakeCache \/ ListBuildTargetsCheck
    \/ BuildFirst \/ Require \/ SetTarget \/ CreateProject

SpecCmd == InitCmd /\ [][NextCmd]_vars

-----------------------------------------------------------------------------
(* Properties of the dispatch (checked under SpecCmd). *)

\* The place in the history of the k-th call of execute_single_command, of
\* its return (or the end of the history), and what happened in between.
CallPos(k) ==
    CHOOSE p \in 1..Len(effects) :
        /\ effects[p].kind = "call"
        /\ Cardinality({q \in 1..p : effects[q].kind = "call"}) = k
RetPos(k) ==
    IF k <= Len(Rets)
    THEN CHOOSE p \in 1..Len(effects) :
            /\ effects[p].kind = "return"
            /\ Cardinality({q \in 1..p : effects[q].kind = "return"}) = k
    ELSE Len(effects) + 1
During(k) == SubSeq(effects, CallPos(k) + 1, RetPos(k) - 1)

\* A probe of the registry, and the command lines of the k-th command that
\* are not probes.
IsProbe(line) == Len(line) = 2 /\ line[1] \in Executables /\ line[2] = "--version"
ExecsOf(k) == SelectSeq(During(k), LAMBDA e : e.kind = "exec")
ToolExecs(k) == SelectSeq(ExecsOf(k), LAMBDA e : ~IsProbe(e.arg))

\* The commands that invoke an external tool.
ToolCommands ==
    {"build", "app", "bootloader", "clean", "reconfigure", "flash",
     "app-flash", "bootloader-flash", "erase-flash", "monitor", "menuconfig",
     "size", "size-components", "size-files", "build-system-targets"}

\* C14: with IDF_PATH unset, every dispatched command that would invoke an
\* external tool spawns no process and returns the
\* environment-not-configured error.
C14_NoToolWithoutIdfPath ==
    (parsed.ok /\ "IDF_PATH" \notin env) =>
        \A k \in 1..Len(Calls) :
            Calls[k].arg[1] \in ToolCommands =>
                /\ ExecsOf(k) = <<>>
                /\ k <= Len(Rets) => Rets[k].arg = <<"err", IdfPathNotSet>>

\* C15: a chained set-target or create-project without trailing arguments
\* returns its missing-argument error, nothing happens between its call
\* and its return, and the sequence ends there; with arguments, the first
\* one alone is the target or the name.
C15_MissingArgument ==
    parsed.ok =>
        \A k \in 1..Len(Calls) :
            LET name == Calls[k].arg[1]
                args == cmds[k].args
                writes == SelectSeq(During(k), LAMBDA e : e.kind = "write")
            IN name \in {"set-target", "create-project"} =>
                IF args = <<>>
                THEN LET missing == IF name = "set-target"
                                    THEN SetTargetRequiresArgument
                                    ELSE CreateProjectRequiresName
                     IN /\ During(k) = <<>>
                        /\ Len(Calls) = k
                        /\ IF k <= Len(Rets)
                           THEN /\ Rets[k].arg = <<"err", missing>>
                                /\ pc = "done"
                                /\ result = Some(Err(missing))
                           ELSE /\ pc = "cmd" /\ ops = <<>>
                                /\ ret = Some(Err(missing))
                ELSE /\ \A w \in 1..Len(writes) :
                            writes[w].arg = <<IF name = "set-target"
                                              THEN "sdkconfig" ELSE args[1]>>
                     /\ (k <= Len(Rets) /\ name = "set-target") =>
                            /\ Rets[k].arg = <<"ok">>
                                    <=> args[1] \in SupportedTargets
                            /\ Rets[k].arg = <<"ok">> =>
                                    LoadFromFile(fs.sdkconfig).target
                                        = Some(args[1])
                     /\ (k <= Len(Rets) /\ name = "create-project"
                         /\ Rets[k].arg = <<"ok">>) =>
                            /\ args[1] \in fs.dirs
                            /\ Len(writes) = 1

\* set-target without a target, then build: the sequence ended at command 1
C15_Witness ==
    /\ argv = <<"idf-rs", "set-target", "build">>
    /\ pc = "done"
    /\ Len(Calls) = 1
    /\ result = Some(Err(SetTargetRequiresArgument))
    /\ fs.sdkconfig = None

\* The actions of the external tools, named after the command lines.
ActionOf(line) ==
    CASE IsConfigure(line) -> "configure"
      [] line[1] = "cmake" /\ Len(line) >= 5 /\ line[4] = "--target" -> line[5]
      [] line[1] = "cmake" -> "build"
      [] line[2] = "tools/idf_monitor.py" -> "monitor"
      [] line[2] = "tools/idf_size.py" -> "size"
      [] line[Len(line)] = "erase_flash" -> "erase_flash"
      [] line[Len(line)] = AppBinPath(cli) -> "write_flash app"
      [] OTHER -> "write_flash bootloader"

\* The actions that are a command's own.
OwnActions(name) ==
    CASE name \in {"build", "all"} -> {"configure", "build"}
      [] name = "reconfigure" -> {"configure"}
      [] name = "build-system-targets" -> {"help"}
      [] name = "app-flash" -> {"write_flash app"}
      [] name = "bootloader-flash" -> {"write_flash bootloader"}
      [] name = "erase-flash" -> {"erase_flash"}
      [] name \in {"size", "size-components", "size-files"} -> {"size"}
      [] name \in {"set-target", "create-project", "fullclean"} -> {}
      [] OTHER -> {name}

\* C16: a dispatched command runs the action that is its own, once, and no
\* action of another command.
C16_OneActionPerCommand ==
    parsed.ok =>
        \A k \in 1..Len(Calls) :
            /\ \A x \in 1..Len(ToolExecs(k)) :
                  ActionOf(ToolExecs(k)[x].arg) \in OwnActions(Calls[k].arg[1])
            /\ \A x, y \in 1..Len(ToolExecs(k)) :
                  ActionOf(ToolExecs(k)[x].arg) = ActionOf(ToolExecs(k)[y].arg)
                  => x = y

\* The probes of the k-th command, and the exits of probes so far.
ProbesIn(k) ==
    LET ps == SelectSeq(ExecsOf(k), LAMBDA e : IsProbe(e.arg))
    IN [x \in 1..Len(ps) |-> ps[x].arg]
ProbeExits ==
    SelectSeq(effects, LAMBDA e : e.kind = "exit" /\ IsProbe(Tail(e.arg)))
ConfiguresIn(k) == SelectSeq(ToolExecs(k), LAMBDA e : IsConfigure(e.arg))
IsPrefix(a, b) == Len(a) <= Len(b) /\ a = SubSeq(b, 1, Len(a))

\* A step in which a probe is spawned, fails to spawn, or exits.
ProbeStep ==
    \/ \E p \in (procs \ procs') \cup (procs' \ procs) : IsProbe(p.cmd)
    \/ /\ Len(effects') = Len(effects) + 1
       /\ effects'[Len(effects')].kind = "exec"
       /\ IsProbe(effects'[Len(effects')].arg)

Markers == SelectSeq(effects, LAMBDA e : e.kind = "marker")

\* C19: without an explicit generator, a configure step of a command called
\* on a build directory whose marker file records G is handed G.
C19_StickyGenerator ==
    (parsed.ok /\ cli.generator = None) =>
        \A k \in 1..Len(Calls) :
            Markers[k].arg # <<>> =>
                \A x \in 1..Len(ConfiguresIn(k)) :
                    ConfiguresIn(k)[x].arg[7] = Markers[k].arg[1]

\* The tool command lines of the k-th command and the exits of the tools,
\* in the order they happened.
ToolEvents(k) ==
    SelectSeq(During(k),
              LAMBDA e : \/ e.kind = "exec" /\ ~IsProbe(e.arg)
                         \/ e.kind = "exit" /\ ~IsProbe(Tail(e.arg)))

\* C20: build resolves the generator, then runs the configure invocation
\* with it, then, if that exited with status zero, the build invocation; a
\* failed resolution runs no tool, a failed configure invocation ends build
\* with the error.
C20_BuildStepsInOrder ==
    parsed.ok =>
        \A k \in 1..Len(Calls) :
            Calls[k].arg[1] \in {"build", "all"} =>
            LET T == ToolEvents(k)
                D == During(k)
            IN /\ Len(T) <= 4
               /\ Len(T) >= 1 => T[1].kind = "exec" /\ IsConfigure(T[1].arg)
               /\ Len(T) >= 2 => T[2].kind = "exit"
                                 /\ Tail(T[2].arg) = T[1].arg
               /\ Len(T) >= 3 => /\ T[2].arg[1] = "exit_zero"
                                 /\ T[3].kind = "exec"
                                 /\ ActionOf(T[3].arg) = "build"
               /\ Len(T) >= 4 => T[4].kind = "exit"
                                 /\ Tail(T[4].arg) = T[3].arg
               /\ \A a, b \in 1..Len(D) :
                     (/\ D[a].kind = "exec" /\ ~IsProbe(D[a].arg)
                      /\ \/ D[b].kind = "exec" /\ IsProbe(D[b].arg)
                         \/ D[b].kind \in {"stat", "read"}
                            /\ D[b].arg = <<"CMakeCache.txt">>)
                     => b < a
               /\ (k = Len(Calls) /\ k > Len(Rets) /\ Len(T) >= 1) =>
                     genres = Some(Ok(T[1].arg[7]))
               /\ k <= Len(Rets) =>
                     /\ Rets[k].arg = <<"err", NoGeneratorFound>> => T = <<>>
                     /\ Rets[k].arg = <<"ok">> =>
                            /\ Len(T) = 4
                            /\ T[4].arg[1] = "exit_zero"
                     /\ (Len(T) \in 1..3
                         \/ (Len(T) = 4 /\ T[4].arg[1] # "exit_zero")) =>
                            Rets[k].arg \in {<<"err", CommandFailed>>,
                                             <<"err", SpawnFailed>>}

\* build whose configure invocation exited with a non-zero status
C20_Witness ==
    /\ argv = <<"idf-rs", "build", "build">>
    /\ pc = "done" /\ Len(Calls) = 1
    /\ Len(ToolEvents(1)) = 2
    /\ ToolEvents(1)[2].arg[1] = "exit_nonzero"
    /\ Rets[1].arg = <<"err", CommandFailed>>

-----------------------------------------------------------------------------
(* flash and the build it depends on (checked under SpecCmd). *)

\* What the k-th command learned when it looked for the build directory.
BuildDirStats(k) ==
    SelectSeq(During(k),
              LAMBDA e : e.kind = "stat" /\ e.arg = <<BuildDirPath(cli)>>)

\* C21: flash with no build directory runs the configure invocation and
\* then the build invocation before the flashing tool, and the flashing
\* tool only after both exited with status zero; flash with a build
\* directory runs the flashing tool and neither of the two.
C21_FlashBuildsFirst ==
    \A k \in 1..Len(Calls) :
        Calls[k].arg[1] = "flash" =>
        LET T == ToolEvents(k)
            S == BuildDirStats(k)
            D == During(k)
        IN /\ Len(S) <= 1
           /\ T # <<>> => S # <<>>
           /\ \A a, b \in 1..Len(D) :
                 (/\ D[a].kind = "exec" /\ ~IsProbe(D[a].arg)
                  /\ D[b].kind = "stat") => b < a
           /\ (S # <<>> /\ S[1].n = 0) =>
                 /\ Len(T) <= 6
                 /\ Len(T) >= 1 => T[1].kind = "exec" /\ IsConfigure(T[1].arg)
                 /\ Len(T) >= 2 => T[2].kind = "exit"
                 /\ Len(T) >= 3 => /\ T[2].arg[1] = "exit_zero"
                                   /\ T[3].kind = "exec"
                                   /\ ActionOf(T[3].arg) = "build"
                 /\ Len(T) >= 4 => T[4].kind = "exit"
                 /\ Len(T) >= 5 => /\ T[4].arg[1] = "exit_zero"
                                   /\ T[5].kind = "exec"
                                   /\ ActionOf(T[5].arg) = "flash"
                 /\ Len(T) >= 6 => T[6].kind = "exit"
           /\ (S # <<>> /\ S[1].n = 1) =>
                 /\ Len(T) <= 2
                 /\ Len(T) >= 1 => T[1].kind = "exec"
                                   /\ ActionOf(T[1].arg) = "flash"
                 /\ Len(T) >= 2 => T[2].kind = "exit"
           /\ (k <= Len(Rets) /\ Rets[k].arg = <<"ok">>) =>
                 /\ S # <<>>
                 /\ Len(T) = (IF S[1].n = 0 THEN 6 ELSE 2)
                 /\ T[Len(T)].arg[1] = "exit_zero"

\* flash found no build directory, built the project and flashed it
C21_Witness ==
    /\ Len(Calls) >= 1 /\ Len(Rets) >= 1
    /\ Calls[1].arg[1] = "flash"
    /\ BuildDirStats(1) # <<>> /\ BuildDirStats(1)[1].n = 0
    /\ Len(ToolEvents(1)) = 6
    /\ Rets[1].arg = <<"ok">>

-----------------------------------------------------------------------------
(* set-target and the configuration file (checked under SpecCmd). *)

\* The k-th command is set-target with a target outside the supported list.
UnsupportedSetTarget(k) ==
    /\ cmds[k].name = "set-target"
    /\ cmds[k].args # <<>>
    /\ cmds[k].args[1] \notin SupportedTargets

\* A step of set-target on a target outside the supported list.
RejectStep ==
    /\ Running /\ Top.op = "set_target"
    /\ Top.cmd[1] \notin SupportedTargets

\* C22: set-target with a target outside the supported list returns the
\* unsupported-target error and leaves the configuration file alone: it is
\* not looked for, not read, not written and not created.
C22_UnsupportedTargetLeavesConfig ==
    /\ [](parsed.ok =>
            \A k \in 1..Len(Calls) :
                UnsupportedSetTarget(k) =>
                    /\ During(k) = <<>>
                    /\ k <= Len(Rets) =>
                          Rets[k].arg = <<"err", UnsupportedTarget>>)
    /\ [][RejectStep => fs' = fs]_vars

\* set-target bogus has returned its error next to an sdkconfig
C22_Witness ==
    /\ parsed.ok /\ Len(Rets) = 1
    /\ UnsupportedSetTarget(1)
    /\ Rets[1].arg = <<"err", UnsupportedTarget>>
    /\ fs.sdkconfig = SomeSdkconfig

-----------------------------------------------------------------------------
(* set-target run twice, over every small sdkconfig: SpecCfg. *)

SdkLines ==
    {<<"#", " a comment">>,
     <<>>,
     <<"garbage">>,
     <<"CONFIG_LOG_LEVEL", "=", "3">>,
     <<" ", "CONFIG_LOG_LEVEL", " ", "=", " ", "4", " ">>,
     <<"CONFIG_IDF_TARGET", "=", Quoted("esp32s3")>>,
     <<"CONFIG_FREERTOS_HZ", "=", "100", "=", "x">>}

SdkFiles == {None} \cup {Some(l) : l \in SeqsUpTo(SdkLines, MaxSdkLines)}

CfgTargets == {"esp32", "esp32c3", "bogus"}

InitCfg ==
    /\ target_os = "linux"
    /\ host \in RunHosts
    /\ env = {}
    /\ \E s \in SdkFiles : fs = [NoFiles EXCEPT !.sdkconfig = s]
    /\ \E t1, t2 \in CfgTargets :
          argv = <<"idf-rs", "set-target", t1, "set-target", t2>>
    /\ pc = "start"
    /\ parsed = NoParse
    /\ cli = DefaultCli
    /\ cmds = <<>>
    /\ idx = 0
    /\ ops = <<>>
    /\ genres = None
    /\ ret = None
    /\ procs = {}
    /\ effects = <<>>
    /\ result = None

NextCfg == MainStart \/ LoopCall \/ LoopReturned \/ LoopDone \/ SetTarget

SpecCfg == InitCfg /\ [][NextCfg]_vars

\* The value a file holds for a key: the trimmed text after the first '='
\* of the last line that is no comment and has the key before its first '='.
HeldLines(file, key) ==
    IF file = None THEN <<>>
    ELSE SelectSeq(file[1],
                   LAMBDA l : /\ Trim(l) # <<>>
                              /\ Trim(l)[1] # "#"
                              /\ SplitOnce(Trim(l)) # None
                              /\ SplitOnce(Trim(l))[1].key = key)
Held(file, key) ==
    LET L == HeldLines(file, key)
    IN IF L = <<>> THEN None ELSE Some(SplitOnce(Trim(L[Len(L)]))[1].value)

\* A step of set-target on a supported target.
SaveStep ==
    /\ Running /\ Top.op = "set_target"
    /\ Top.cmd[1] \in SupportedTargets

\* C23: after set-target T has succeeded, loading the saved file yields the
\* target T and every other key the file held is still there with the value
\* it had; set-target T right after a successful set-target T leaves the
\* content of the file as it is.
C23_SetTargetKeepsSettings ==
    [][SaveStep =>
        /\ fs'.sdkconfig # None
        /\ LoadFromFile(fs'.sdkconfig).target = Some(Top.cmd[1])
        /\ Held(fs'.sdkconfig, "CONFIG_IDF_TARGET") = Some(Quoted(Top.cmd[1]))
        /\ \A i \in 1..Len(SdkconfigKeys) :
              (/\ SdkconfigKeys[i] # "CONFIG_IDF_TARGET"
               /\ Held(fs.sdkconfig, SdkconfigKeys[i]) # None)
              => Held(fs'.sdkconfig, SdkconfigKeys[i])
                 = Held(fs.sdkconfig, SdkconfigKeys[i])
        /\ (idx = 2 /\ cmds[1] = cmds[2]) => fs'.sdkconfig = fs.sdkconfig
    ]_vars

\* set-target esp32c3 has succeeded twice on a file that held two other keys
C23_Witness ==
    /\ argv = <<"idf-rs", "set-target", "esp32c3", "set-target", "esp32c3">>
    /\ pc = "done" /\ Len(Rets) = 2
    /\ Rets[1].arg = <<"ok">> /\ Rets[2].arg = <<"ok">>
    /\ Held(fs.sdkconfig, "CONFIG_LOG_LEVEL") = Some("4")
    /\ Held(fs.sdkconfig, "CONFIG_FREERTOS_HZ") = Some("100=x")
    /\ LoadFromFile(fs.sdkconfig).target = Some("esp32c3")

-----------------------------------------------------------------------------
(* The marker file parser on its own (checked under SpecGen). *)

\* C24: get_generator_from_cache returns the full value that follows the key
\* on the first line beginning with CMAKE_GENERATOR:INTERNAL=, and none when
\* the file is missing, unreadable or has no such line; lines with other
\* keys have no part in the result.
C24_FullValueOfFirstKeyLine ==
    GetGeneratorFromCache(fs) =
        IF fs.cache.exists /\ fs.cache.readable /\ KeyLines(fs) # <<>>
        THEN Some(FullValue(KeyLines(fs)[1]))
        ELSE None

-----------------------------------------------------------------------------
(* More on the tokenizer (checked under SpecTok). *)

\* The commands the tokenizer collected, returned or not.
Collected == SaveLast(parsed.locals)

RECURSIVE Flatten(_)
Flatten(commands) ==
    IF commands = <<>> THEN <<>>
    ELSE <<Head(commands).name>> \o Head(commands).args
         \o Flatten(Tail(commands))

\* C26: the tokenizer loses and reorders no token: the names and args of the
\* returned commands, in order, are the argument vector from the first known
\* command name on, and the tokens before that name are the global tokens.
C26_NoTokenLost ==
    (pc # "start" /\ parsed.ok) =>
        /\ Flatten(parsed.commands) = SubSeq(argv, FirstKnown, Len(argv))
        /\ parsed.locals.global_args = SubSeq(argv, 2, FirstKnown - 1)

\* a global token, then two commands, the first with an argument of its own
C26_Witness ==
    /\ pc # "start" /\ parsed.ok
    /\ Len(parsed.locals.global_args) = 1
    /\ Len(parsed.commands) = 2
    /\ parsed.commands[1].args # <<>>

\* C27: every name the tokenizer takes for a command has an arm in
\* execute_single_command: the dispatch of a collected command never yields
\* the unknown-command error.
C27_EveryKnownCommandHandled ==
    /\ \A name \in KnownCommands : \A args \in {<<>>, <<"COM3">>} :
          DispatchErr(ParsedCommand(name, args)) # Some(Err(UnknownCommand))
    /\ pc # "start" =>
          \A j \in 1..Len(Collected) :
              /\ Collected[j].name \in KnownCommands
              /\ DispatchErr(Collected[j]) # Some(Err(UnknownCommand))

\* three commands collected, each with an arm of its own
C27_Witness ==
    /\ pc # "start" /\ parsed.ok
    /\ Len(parsed.commands) = 3
    /\ {parsed.commands[j].name : j \in 1..3} = {"build", "flash", "monitor"}

-----------------------------------------------------------------------------
(* flash followed by monitor (checked under Spec). *)

\* The arguments after the program name hold flash right before monitor.
FlashThenMonitor ==
    \E i \in 2..(Len(argv) - 1) : argv[i] = "flash" /\ argv[i + 1] = "monitor"

\* C28: an argument vector with flash right before monitor goes through the
\* chained path, with monitor a command of the sequence; main's own
\* start-the-monitor-after-flash case is never taken.
C28_FlashMonitorIsChained ==
    pc # "start" =>
        /\ FlashThenMonitor =>
              /\ parsed.ok /\ pc \in {"loop", "cmd", "done"}
              /\ cli.command = None
              /\ \E k \in 1..(Len(cmds) - 1) :
                    cmds[k].name = "flash" /\ cmds[k + 1].name = "monitor"
        /\ (~parsed.ok /\ cli.command # None) =>
              ~(cli.command[1].name = "flash" /\ HasFlashMonitor(argv))

\* flash monitor has run as a chain of two commands
C28_Witness ==
    /\ argv = <<"idf-rs", "flash", "monitor">>
    /\ pc = "done" /\ parsed.ok
    /\ Len(Calls) = 2 /\ Len(Rets) = 2
    /\ Rets[2].arg = <<"ok">>

-----------------------------------------------------------------------------
(* Chains with flash and the tokens of a port around it: SpecPort. *)

PortAlphabet == {"-p", "COM3", "-b", "115200"}

InitPort ==
    /\ target_os = "linux"
    /\ host \in RunHosts
    /\ env \in {{}, {"IDF_PATH"}}
    /\ fs \in RunFiles
    /\ \E g \in {<<>>, <<"-p", "COM3">>} : \E n \in 0..MaxPortArgs :
       \E a \in [1..n -> PortAlphabet] : \E c2 \in {"build", "monitor"} :
          argv = <<"idf-rs">> \o g \o <<"flash">> \o a \o <<c2>>
    /\ pc = "start"
    /\ parsed = NoParse
    /\ cli = DefaultCli
    /\ cmds = <<>>
    /\ idx = 0
    /\ ops = <<>>
    /\ genres = None
    /\ ret = None
    /\ procs = {}
    /\ effects = <<>>
    /\ result = None

NextPort ==
    \/ MainStart \/ LoopCall \/ LoopReturned \/ LoopDone
    \/ CheckIdfPath \/ BuildIfNoBuildDir \/ SetEnvVars \/ RemoveEnvVars
    \/ GetBuildGenerator \/ DetectProbe \/ DetectBail
    \/ RunCommand \/ ProcExit

SpecPort == InitPort /\ [][NextPort]_vars

\* The tokens that name a port or a baud rate on a command line.
PortTokens == {"-p", "--port", "-b", "--baud", "COM3"}

\* C29: in a chained invocation flash does not set ESPPORT or ESPBAUD and
\* hands no port to a tool, whatever arguments follow flash.
C29_ChainedFlashHasNoPort ==
    parsed.ok =>
        /\ env \cap {"ESPPORT", "ESPBAUD"} = {}
        /\ \A k \in 1..Len(Calls) :
              Calls[k].arg[1] = "flash" =>
                 \A x \in 1..Len(ExecsOf(k)) :
                    \A y \in 1..Len(ExecsOf(k)[x].arg) :
                        /\ ExecsOf(k)[x].arg[y] \notin PortTokens
                        /\ \A z \in 1..Len(cmds[k].args) :
                              ExecsOf(k)[x].arg[y] # cmds[k].args[z]

\* flash -p COM3 in a chain has run the flashing tool
C29_Witness ==
    /\ parsed.ok /\ Len(Rets) >= 1
    /\ cmds[1] = ParsedCommand("flash", <<"-p", "COM3">>)
    /\ ToolExecs(1) # <<>>
    /\ ActionOf(ToolExecs(1)[Len(ToolExecs(1))].arg) = "flash"
    /\ Rets[1].arg = <<"ok">>

-----------------------------------------------------------------------------
(* install-alias and uninstall-alias, run after run: SpecAlias. *)

\* The command lines of a run.
AliasRuns ==
    {<<"idf-rs", "install-alias">>,
     <<"idf-rs", "install-alias", "--force">>,
     <<"idf-rs", "uninstall-alias">>,
     <<"idf-rs", "install-alias", "uninstall-alias">>}

Invocations == SelectSeq(effects, LAMBDA e : e.kind = "invoke")

InitAlias ==
    /\ target_os = "linux"
    /\ host \in {h \in RunHosts : h["ninja"] = "exit_zero"
                                  /\ h["make"] = "exit_zero"}
    /\ env = {}
    /\ fs = NoFiles
    /\ argv \in AliasRuns
    /\ pc = "start"
    /\ parsed = NoParse
    /\ cli = DefaultCli
    /\ cmds = <<>>
    /\ idx = 0
    /\ ops = <<>>
    /\ genres = None
    /\ ret = None
    /\ procs = {}
    /\ effects = <<Effect("invoke", Tail(argv), 0, 0)>>
    /\ result = None

\* The process has ended and the program is run again: main starts afresh
\* on the files the last run left.
Invoke ==
    /\ pc = "done"
    /\ Len(Invocations) < MaxInvocations
    /\ argv' \in AliasRuns
    /\ effects' = Append(effects, Effect("invoke", Tail(argv'), 0, 0))
    /\ pc' = "start"
    /\ parsed' = NoParse
    /\ cli' = DefaultCli
    /\ cmds' = <<>>
    /\ idx' = 0
    /\ ops' = <<>>
    /\ genres' = None
    /\ ret' = None
    /\ procs' = {}
    /\ result' = None
    /\ UNCHANGED <<target_os, host, env, fs>>

NextAlias ==
    \/ MainStart \/ MainCliParse \/ MainReturned
    \/ LoopCall \/ LoopReturned \/ LoopDone
    \/ Which \/ BackupCheck \/ LinkCheck \/ RenameToBackup \/ Symlink
    \/ RestoreCheck \/ RemoveLink \/ RenameFromBackup
    \/ Invoke

SpecAlias == InitAlias /\ [][NextAlias]_vars

\* The script ESP-IDF installed is at idf.py or at the backup path.
OriginalKept == fs.idf_py = Original \/ fs.idf_old_py = Original

\* The last two commands were install-alias and uninstall-alias, both have
\* returned Ok, and nothing has been called since.
InstalledThenUninstalled ==
    /\ Len(Calls) >= 2 /\ Len(Rets) = Len(Calls)
    /\ Calls[Len(Calls) - 1].arg = <<"install-alias">>
    /\ Rets[Len(Calls) - 1].arg = <<"ok">>
    /\ Calls[Len(Calls)].arg = <<"uninstall-alias">>
    /\ Rets[Len(Calls)].arg = <<"ok">>

\* C30: started with the original idf.py and no backup, no sequence of
\* install-alias (with or without --force) and uninstall-alias runs loses
\* the original: it is at idf.py or at idf-old.py in every state; and a
\* successful install followed by a successful uninstall leaves the original
\* at idf.py and no backup.
C30_OriginalNeverLost ==
    /\ OriginalKept
    /\ InstalledThenUninstalled =>
          fs.idf_py = Original /\ fs.idf_old_py = Absent

\* What of C30 the code does keep: the restore after a successful install
\* and uninstall, and the original as long as --force is not used on an
\* installed alias.
RestoredAfterUninstall ==
    InstalledThenUninstalled => fs.idf_py = Original /\ fs.idf_old_py = Absent
KeptWithoutForce ==
    (\A j \in 1..Len(Invocations) : Invocations[j].arg # <<"install-alias", "--force">>)
        => OriginalKept

=============================================================================
